---- MODULE Spec2Model ----
(***************************************************************************)
(* A model of the ant automaton of src/ant: the sparse coloured grid       *)
(* (Grid), its three topologies (SquareGrid, HexGrid, TriangleGrid) and    *)
(* the ant state machine (Ant.step), all taken from src/ant/grid.py and    *)
(* src/ant/types.py.                                                       *)
(*                                                                         *)
(* Three specifications share the variables:                               *)
(*   SpecGrid  a grid without ants, driven by Grid.__setitem__ calls;      *)
(*   Spec      a grid with one ant, driven by Ant.step and __setitem__;    *)
(*   SpecTopo  the pure topology functions applied to drawn arguments.     *)
(***************************************************************************)
EXTENDS Integers, Sequences, FiniteSets, TLC

(***************************************************************************)
(* Bounds of the model.                                                    *)
(***************************************************************************)
\* coordinates passed to __setitem__ range over -MaxCoord..MaxCoord
MaxCoord == 1
\* coordinates given to the topology functions range over -MaxTopoCoord..MaxTopoCoord
MaxTopoCoord == 2
\* cell colours passed to __setitem__ range over 0..MaxColour
MaxColour == 1
\* number of __setitem__ calls made on a grid without ants
MaxOps == 2
\* number of step calls made by the ant
MaxSteps == 3
\* number of __setitem__ calls made from outside on a grid with an ant
MaxExternalSets == 1
\* turn values given to get_direction range over 1..MaxTurn
MaxTurn == 7
\* LR strings given to rules_from_lr_string have at most MaxStrLen characters
MaxStrLen == 3
\* number of ants the driver is given
MaxAnts == 2
\* step_limit of the driver: the number of ticks it runs
MaxTicks == 3

(***************************************************************************)
(* types.py: CardinalDirection(IntEnum).  sorted() orders by these values. *)
(***************************************************************************)
NORTH == 1
NORTH_EAST == 2
EAST == 3
SOUTH_EAST == 4
SOUTH == 5
SOUTH_WEST == 6
WEST == 7
NORTH_WEST == 8

CardinalDirection == {NORTH, NORTH_EAST, EAST, SOUTH_EAST, SOUTH, SOUTH_WEST, WEST, NORTH_WEST}

\* the three concrete subclasses of Grid
GridClasses == {"SquareGrid", "HexGrid", "TriangleGrid"}

(***************************************************************************)
(* Helpers standing for Python built-ins.                                  *)
(***************************************************************************)
Min(a, b) == IF a <= b THEN a ELSE b

Max(a, b) == IF a >= b THEN a ELSE b

SetMin(S) == CHOOSE m \in S : \A e \in S : m <= e

RECURSIVE sorted(_)
\* sorted(iterable of IntEnum): ascending list
sorted(S) == IF S = {} THEN <<>> ELSE <<SetMin(S)>> \o sorted(S \ {SetMin(S)})

\* list.index(v), 0-based; only evaluated when v occurs in seq
index(seq, v) == (CHOOSE i \in 1..Len(seq) : seq[i] = v) - 1

\* seq[i] for a 0-based Python index
at(seq, i) == seq[i + 1]

Range(seq) == {seq[i] : i \in 1..Len(seq)}

(***************************************************************************)
(* GridCoord + Vector.  Coordinates and vectors are pairs <<x, y>>.        *)
(***************************************************************************)
GridCoord_add(coord, vector) == <<coord[1] + vector[1], coord[2] + vector[2]>>

(***************************************************************************)
(* The + operator on Vector and GridCoord objects.  An object is a record  *)
(* [cls, x, y] (x, y are dx, dy for a Vector); a method returns [err, val] *)
(* with err "NotImplemented" when it returns NotImplemented.               *)
(***************************************************************************)
\* mutant of Vector__add__: the isinstance test is missing
Vector__add__untyped(self, other) ==
    [err |-> "none", val |-> [cls |-> "Vector", x |-> self.x + other.x, y |-> self.y + other.y]]

Vector__add__(self, other) ==
    IF other.cls # "Vector" THEN [err |-> "NotImplemented", val |-> self]
    ELSE [err |-> "none",
          val |-> [cls |-> "Vector", x |-> self.x + other.x, y |-> self.y + other.y]]

Vector__radd__(self, other) ==
    IF other.cls # "Vector" THEN [err |-> "NotImplemented", val |-> self]
    ELSE Vector__add__(self, other)

GridCoord__add__(self, vector) ==
    IF vector.cls # "Vector" THEN [err |-> "NotImplemented", val |-> self]
    ELSE [err |-> "none",
          val |-> [cls |-> "GridCoord",
                   x |-> GridCoord_add(<<self.x, self.y>>, <<vector.x, vector.y>>)[1],
                   y |-> GridCoord_add(<<self.x, self.y>>, <<vector.x, vector.y>>)[2]]]

GridCoord__radd__(self, vector) ==
    IF vector.cls # "Vector" THEN [err |-> "NotImplemented", val |-> self]
    ELSE GridCoord__add__(self, vector)

\* a + b as Python evaluates it: type(a).__add__(a, b), then, if that returned
\* NotImplemented and the operands' types differ, type(b).__radd__(b, a), and
\* TypeError if that returned NotImplemented too
binary_add(a, b) ==
    LET forward == IF a.cls = "Vector" THEN Vector__add__(a, b) ELSE GridCoord__add__(a, b)
        reflected == IF b.cls = "Vector" THEN Vector__radd__(b, a) ELSE GridCoord__radd__(b, a)
    IN IF forward.err # "NotImplemented" THEN forward
       ELSE IF a.cls # b.cls /\ reflected.err # "NotImplemented" THEN reflected
       ELSE [err |-> "TypeError", val |-> a]

(***************************************************************************)
(* Topology: get_direction_vectors of the three subclasses.                *)
(***************************************************************************)
SquareGrid_get_direction_vectors(coord) ==
    (NORTH :> <<0, -1>>) @@ (EAST :> <<1, 0>>) @@ (SOUTH :> <<0, 1>>) @@ (WEST :> <<-1, 0>>)

HexGrid_COMMON_VECTORS == (EAST :> <<1, 0>>) @@ (WEST :> <<-1, 0>>)

HexGrid_EVEN_VECTORS ==
    (NORTH_EAST :> <<0, -1>>) @@ (SOUTH_EAST :> <<0, 1>>) @@
    (NORTH_WEST :> <<-1, -1>>) @@ (SOUTH_WEST :> <<-1, 1>>) @@ HexGrid_COMMON_VECTORS

\* mutant of HexGrid_ODD_VECTORS: odd rows use the offsets of even rows
HexGrid_ODD_VECTORS_unshifted == HexGrid_EVEN_VECTORS

HexGrid_ODD_VECTORS ==
    (NORTH_EAST :> <<1, -1>>) @@ (SOUTH_EAST :> <<1, 1>>) @@
    (NORTH_WEST :> <<0, -1>>) @@ (SOUTH_WEST :> <<0, 1>>) @@ HexGrid_COMMON_VECTORS

\* mutant of HexGrid_get_direction_vectors: the parity of the column, not of the row
HexGrid_get_direction_vectors_by_x(coord) ==
    IF coord[1] % 2 = 0 THEN HexGrid_EVEN_VECTORS ELSE HexGrid_ODD_VECTORS

HexGrid_get_direction_vectors(coord) ==
    IF coord[2] % 2 = 0 THEN HexGrid_EVEN_VECTORS ELSE HexGrid_ODD_VECTORS

\* mutant of TriangleGrid_even_dirs: SOUTH_EAST in the place of SOUTH
TriangleGrid_even_dirs_south_east == {NORTH_EAST, NORTH_WEST, SOUTH_EAST}

TriangleGrid_even_dirs == {NORTH_EAST, NORTH_WEST, SOUTH}

\* mutant of TriangleGrid_odd_dirs: EAST in the place of SOUTH_EAST
TriangleGrid_odd_dirs_east == {NORTH, SOUTH_WEST, EAST}

TriangleGrid_odd_dirs == {NORTH, SOUTH_WEST, SOUTH_EAST}

is_even(coord) == coord[1] % 2 = 0

\* mutant of TriangleGrid_get_direction_vectors: NORTH_WEST does not change y
TriangleGrid_get_direction_vectors_flat(coord) ==
    IF is_even(coord)
    THEN (NORTH_WEST :> <<-1, 0>>) @@ (NORTH_EAST :> <<1, 1>>) @@ (SOUTH :> <<1, -1>>)
    ELSE (NORTH :> <<-1, 1>>) @@ (SOUTH_EAST :> <<1, -1>>) @@ (SOUTH_WEST :> <<-1, -1>>)

TriangleGrid_get_direction_vectors(coord) ==
    IF is_even(coord)
    THEN (NORTH_WEST :> <<-1, 1>>) @@ (NORTH_EAST :> <<1, 1>>) @@ (SOUTH :> <<1, -1>>)
    ELSE (NORTH :> <<-1, 1>>) @@ (SOUTH_EAST :> <<1, -1>>) @@ (SOUTH_WEST :> <<-1, -1>>)

get_direction_vectors(cls, coord) ==
    CASE cls = "SquareGrid" -> SquareGrid_get_direction_vectors(coord)
      [] cls = "HexGrid" -> HexGrid_get_direction_vectors(coord)
      [] cls = "TriangleGrid" -> TriangleGrid_get_direction_vectors(coord)

\* Grid._validate_coord and its TriangleGrid override
validate_coord(cls, coord) ==
    IF cls = "TriangleGrid" THEN coord[1] % 2 = coord[2] % 2 ELSE TRUE

(***************************************************************************)
(* get_ant_angle of the three subclasses: [err, val].                      *)
(***************************************************************************)
SquareGrid_get_ant_angle(direction) ==
    CASE direction = NORTH -> [err |-> "none", val |-> 0]
      [] direction = EAST -> [err |-> "none", val |-> 90]
      [] direction = SOUTH -> [err |-> "none", val |-> 180]
      [] direction = WEST -> [err |-> "none", val |-> 270]
      [] OTHER -> [err |-> "ValueError", val |-> 0]

\* mutant of HexGrid_get_ant_angle: SOUTH_WEST and WEST have each other's angle
HexGrid_get_ant_angle_swapped(direction) ==
    CASE direction = NORTH_EAST -> [err |-> "none", val |-> 30]
      [] direction = EAST -> [err |-> "none", val |-> 90]
      [] direction = SOUTH_EAST -> [err |-> "none", val |-> 150]
      [] direction = SOUTH_WEST -> [err |-> "none", val |-> 270]
      [] direction = WEST -> [err |-> "none", val |-> 210]
      [] direction = NORTH_WEST -> [err |-> "none", val |-> 330]
      [] OTHER -> [err |-> "ValueError", val |-> 0]

HexGrid_get_ant_angle(direction) ==
    CASE direction = NORTH_EAST -> [err |-> "none", val |-> 30]
      [] direction = EAST -> [err |-> "none", val |-> 90]
      [] direction = SOUTH_EAST -> [err |-> "none", val |-> 150]
      [] direction = SOUTH_WEST -> [err |-> "none", val |-> 210]
      [] direction = WEST -> [err |-> "none", val |-> 270]
      [] direction = NORTH_WEST -> [err |-> "none", val |-> 330]
      [] OTHER -> [err |-> "ValueError", val |-> 0]

\* mutant of TriangleGrid_get_ant_angle: SOUTH_EAST and SOUTH_WEST have each other's angle
TriangleGrid_get_ant_angle_mirrored(direction) ==
    CASE direction = NORTH -> [err |-> "none", val |-> 0]
      [] direction = NORTH_EAST -> [err |-> "none", val |-> 60]
      [] direction = SOUTH_EAST -> [err |-> "none", val |-> 240]
      [] direction = SOUTH -> [err |-> "none", val |-> 180]
      [] direction = SOUTH_WEST -> [err |-> "none", val |-> 120]
      [] direction = NORTH_WEST -> [err |-> "none", val |-> 300]
      [] OTHER -> [err |-> "ValueError", val |-> 0]

TriangleGrid_get_ant_angle(direction) ==
    CASE direction = NORTH -> [err |-> "none", val |-> 0]
      [] direction = NORTH_EAST -> [err |-> "none", val |-> 60]
      [] direction = SOUTH_EAST -> [err |-> "none", val |-> 120]
      [] direction = SOUTH -> [err |-> "none", val |-> 180]
      [] direction = SOUTH_WEST -> [err |-> "none", val |-> 240]
      [] direction = NORTH_WEST -> [err |-> "none", val |-> 300]
      [] OTHER -> [err |-> "ValueError", val |-> 0]

get_ant_angle(cls, direction) ==
    CASE cls = "SquareGrid" -> SquareGrid_get_ant_angle(direction)
      [] cls = "HexGrid" -> HexGrid_get_ant_angle(direction)
      [] cls = "TriangleGrid" -> TriangleGrid_get_ant_angle(direction)

(***************************************************************************)
(* get_neighbour.  The result is [err, val]: err is the exception class    *)
(* raised ("none" when the call returns), val the returned coordinate.     *)
(***************************************************************************)
Grid_get_neighbour(cls, coord, direction) ==
    IF ~validate_coord(cls, coord)
    THEN [err |-> "InvalidCoord", val |-> coord]
    ELSE LET direction_vectors == get_direction_vectors(cls, coord) IN
         IF direction \notin DOMAIN direction_vectors
         THEN [err |-> "InvalidDirection", val |-> coord]
         ELSE [err |-> "none", val |-> GridCoord_add(coord, direction_vectors[direction])]

\* mutant of TriangleGrid_get_neighbour: the direction is checked before the coordinate
TriangleGrid_get_neighbour_direction_first(coord, direction) ==
    LET direction_vectors == get_direction_vectors("TriangleGrid", coord) IN
    IF direction \notin DOMAIN direction_vectors
    THEN [err |-> "InvalidDirection", val |-> coord]
    ELSE Grid_get_neighbour("TriangleGrid", coord, direction)

\* mutant of TriangleGrid_get_neighbour: valid_dirs taken from the other parity
TriangleGrid_get_neighbour_swapped(coord, direction) ==
    IF ~validate_coord("TriangleGrid", coord)
    THEN [err |-> "InvalidCoord", val |-> coord]
    ELSE LET direction_vectors == get_direction_vectors("TriangleGrid", coord)
             valid_dirs == IF is_even(coord) THEN TriangleGrid_odd_dirs
                                             ELSE TriangleGrid_even_dirs
         IN IF direction \notin DOMAIN direction_vectors
            THEN [err |-> "InvalidDirection", val |-> coord]
            ELSE IF direction \notin valid_dirs
                 THEN [err |-> "InvalidDirection", val |-> coord]
                 ELSE Grid_get_neighbour("TriangleGrid", coord, direction)

TriangleGrid_get_neighbour(coord, direction) ==
    IF ~validate_coord("TriangleGrid", coord)
    THEN [err |-> "InvalidCoord", val |-> coord]
    ELSE LET direction_vectors == get_direction_vectors("TriangleGrid", coord)
             valid_dirs == IF is_even(coord) THEN TriangleGrid_even_dirs
                                             ELSE TriangleGrid_odd_dirs
         IN IF direction \notin DOMAIN direction_vectors
            THEN [err |-> "InvalidDirection", val |-> coord]
            ELSE IF direction \notin valid_dirs
                 THEN [err |-> "InvalidDirection", val |-> coord]
                 ELSE Grid_get_neighbour("TriangleGrid", coord, direction)

get_neighbour(cls, coord, direction) ==
    IF cls = "TriangleGrid" THEN TriangleGrid_get_neighbour(coord, direction)
                            ELSE Grid_get_neighbour(cls, coord, direction)

(***************************************************************************)
(* get_direction.  The result is [err, val]; list.index raises ValueError  *)
(* when old_direction is not in the list.                                  *)
(***************************************************************************)
\* mutant of Grid_get_direction: the turn is used as a 0-based offset
Grid_get_direction_no_offset(cls, coord, old_direction, turn) ==
    LET direction_vectors == get_direction_vectors(cls, coord)
        directions == sorted(DOMAIN direction_vectors)
    IN IF old_direction \notin Range(directions)
       THEN [err |-> "ValueError", val |-> old_direction]
       ELSE [err |-> "none",
             val |-> at(directions, (index(directions, old_direction) + turn)
                                       % Cardinality(DOMAIN direction_vectors))]

Grid_get_direction(cls, coord, old_direction, turn) ==
    LET turn_ == turn - 1
        direction_vectors == get_direction_vectors(cls, coord)
        directions == sorted(DOMAIN direction_vectors)
    IN IF old_direction \notin Range(directions)
       THEN [err |-> "ValueError", val |-> old_direction]
       ELSE [err |-> "none",
             val |-> at(directions, (index(directions, old_direction) + turn_)
                                       % Cardinality(DOMAIN direction_vectors))]

\* mutant of TriangleGrid_get_direction: the odd set is indexed like the even set
TriangleGrid_get_direction_symmetric(coord, old_direction, turn) ==
    IF old_direction \in TriangleGrid_even_dirs
    THEN [err |-> "none",
          val |-> at(sorted(TriangleGrid_odd_dirs),
                     (index(sorted(TriangleGrid_even_dirs), old_direction) + turn) % 3)]
    ELSE IF old_direction \in TriangleGrid_odd_dirs
         THEN [err |-> "none",
               val |-> at(sorted(TriangleGrid_even_dirs),
                          (index(sorted(TriangleGrid_odd_dirs), old_direction) + turn) % 3)]
         ELSE [err |-> "InvalidDirection", val |-> old_direction]

TriangleGrid_get_direction(coord, old_direction, turn) ==
    IF old_direction \in TriangleGrid_even_dirs
    THEN [err |-> "none",
          val |-> at(sorted(TriangleGrid_odd_dirs),
                     (index(sorted(TriangleGrid_even_dirs), old_direction) + turn) % 3)]
    ELSE IF old_direction \in TriangleGrid_odd_dirs
         THEN [err |-> "none",
               val |-> at(sorted(TriangleGrid_even_dirs),
                          (index(sorted(TriangleGrid_odd_dirs), old_direction) + (turn - 1)) % 3)]
         ELSE [err |-> "InvalidDirection", val |-> old_direction]

get_direction(cls, coord, old_direction, turn) ==
    IF cls = "TriangleGrid" THEN TriangleGrid_get_direction(coord, old_direction, turn)
                            ELSE Grid_get_direction(cls, coord, old_direction, turn)

(***************************************************************************)
(* State.                                                                  *)
(*   grid_cls, default_colour, store_default: fixed at construction.       *)
(*   grid: the mutable fields of Grid: cells is the dict _grid (a function *)
(*         whose domain is the set of stored coordinates), has_data and    *)
(*         min_x..max_y the fast bounding box.                             *)
(*   ants: the list Grid._ants; each ant is a record of its AntState       *)
(*         (position, direction, colour), _prev_position and _rules.       *)
(*   err:  the exception class raised by the last call, "none" if it       *)
(*         returned.                                                       *)
(*   last: the last call made, [op, ant, coord, colour].                   *)
(*   written: for every valid coordinate passed to __setitem__ so far, the *)
(*         colour of the latest such call; passed: every coordinate passed *)
(*         to __setitem__ so far.  nsets, nsteps count the calls.          *)
(*   arg, ret: arguments and result of a topology function (SpecTopo) or  *)
(*         of an LR-string function (SpecLR); in Spec, arg holds the rule  *)
(*         list and the initial state the ant was constructed from.        *)
(*   run:  the driver (SpecRun): pc is where it stands ("setup" while the  *)
(*         ants are made, "loop" inside the tick loop of _run_live, "done" *)
(*         or "failed" after it), grids[a] the Grid instance ant a refers  *)
(*         to, registry[g] the list _ants of Grid instance g, validated    *)
(*         the result of validate_ants, i the tick, k the number of ants   *)
(*         stepped in tick i, trace the step calls made as <<i, ant>>.     *)
(*         In SpecRun ants is the driver's list of ants and grid the       *)
(*         fields of the Grid instance the first ant refers to.            *)
(*   twin: a second run of the tick loop started from the same grid, ants  *)
(*         and ant order as the first.                                     *)
(***************************************************************************)
VARIABLES grid_cls, default_colour, store_default, grid, ants, err, last,
          written, passed, nsets, nsteps, arg, ret, run, twin

vars == <<grid_cls, default_colour, store_default, grid, ants, err, last,
          written, passed, nsets, nsteps, arg, ret, run, twin>>

Coords == {<<x, y>> : x \in -MaxCoord..MaxCoord, y \in -MaxCoord..MaxCoord}

TopoCoords == {<<x, y>> : x \in -MaxTopoCoord..MaxTopoCoord, y \in -MaxTopoCoord..MaxTopoCoord}

CellColours == 0..MaxColour

\* default colours given at construction: 0, or a custom default
DefaultColours == {0, MaxColour}

\* Grid.__init__
Grid_init ==
    [cells |-> <<>>, has_data |-> FALSE, min_x |-> 0, min_y |-> 0, max_x |-> 0, max_y |-> 0]

\* Grid.bbox
bbox(g) == <<g.min_x, g.min_y, g.max_x, g.max_y>>

\* Grid.__contains__: [err, val]
Grid_contains(g, coord) ==
    IF ~validate_coord(grid_cls, coord)
    THEN [err |-> "InvalidCoord", val |-> FALSE]
    ELSE [err |-> "none", val |-> coord \in DOMAIN g.cells]

\* mutant of Grid_getitem: a missing key reads as colour 0, not as the default colour
Grid_getitem_zero(g, coord) ==
    IF ~validate_coord(grid_cls, coord)
    THEN [err |-> "InvalidCoord", val |-> default_colour]
    ELSE [err |-> "none",
          val |-> IF coord \in DOMAIN g.cells THEN g.cells[coord] ELSE 0]

\* Grid.__getitem__: [err, val]
\* mutant of Grid_getitem: every cell reads as it was at construction, whatever has
\* been stored since
Grid_getitem_unwritten(g, coord) ==
    IF ~validate_coord(grid_cls, coord)
    THEN [err |-> "InvalidCoord", val |-> default_colour]
    ELSE [err |-> "none", val |-> default_colour]

Grid_getitem(g, coord) ==
    IF ~validate_coord(grid_cls, coord)
    THEN [err |-> "InvalidCoord", val |-> default_colour]
    ELSE [err |-> "none",
          val |-> IF coord \in DOMAIN g.cells THEN g.cells[coord] ELSE default_colour]

\* Grid.__iter__: the (coord, colour) pairs yielded, one per key of the dict
Grid_iter(g) == {<<coord, g.cells[coord]>> : coord \in DOMAIN g.cells}

\* mutant of SquareGrid_get_cell_vertices: the right edge is at coord.x
SquareGrid_get_cell_vertices_no_width(coord) ==
    LET left == coord[1]
        right == coord[1]
        top == coord[2] + 1
        bottom == coord[2]
    IN << <<left, top>>, <<right, top>>, <<right, bottom>>, <<left, bottom>> >>

\* SquareGrid._get_cell_vertices: the DisplayCoords <<x, y>> of the corners
SquareGrid_get_cell_vertices(coord) ==
    LET left == coord[1]
        right == coord[1] + 1
        top == coord[2] + 1
        bottom == coord[2]
    IN << <<left, top>>, <<right, top>>, <<right, bottom>>, <<left, bottom>> >>

\* Grid.get_display_bbox of a grid that is empty or a SquareGrid: <<min_x, min_y,
\* max_x, max_y>>.  min and max start at the first vertex of the first key and are
\* folded over every vertex of every key, which gives the extremes of all vertices.
get_display_bbox(g) ==
    IF DOMAIN g.cells = {} THEN <<0, 0, 0, 0>>
    ELSE LET vertices == UNION {Range(SquareGrid_get_cell_vertices(coord)) :
                                   coord \in DOMAIN g.cells}
             xs == {v[1] : v \in vertices}
             ys == {v[2] : v \in vertices}
         IN <<SetMin(xs), SetMin(ys), -SetMin({-x : x \in xs}), -SetMin({-y : y \in ys})>>

\* mutant of update_bbox: max_x is updated with min() instead of max()
update_bbox_min_for_max(g, coord) ==
    IF g.has_data
    THEN [g EXCEPT !.min_x = Min(g.min_x, coord[1]), !.max_x = Min(g.max_x, coord[1]),
                   !.min_y = Min(g.min_y, coord[2]), !.max_y = Max(g.max_y, coord[2])]
    ELSE [g EXCEPT !.has_data = TRUE, !.min_x = coord[1], !.max_x = coord[1],
                   !.min_y = coord[2], !.max_y = coord[2]]

\* the bounding-box update of Grid.__setitem__
\* mutant of update_bbox: the box is set to the coordinate written, data or no data
update_bbox_point(g, coord) ==
    [g EXCEPT !.has_data = TRUE, !.min_x = coord[1], !.max_x = coord[1],
              !.min_y = coord[2], !.max_y = coord[2]]

update_bbox(g, coord) ==
    IF g.has_data
    THEN [g EXCEPT !.min_x = Min(g.min_x, coord[1]), !.max_x = Max(g.max_x, coord[1]),
                   !.min_y = Min(g.min_y, coord[2]), !.max_y = Max(g.max_y, coord[2])]
    ELSE [g EXCEPT !.has_data = TRUE, !.min_x = coord[1], !.max_x = coord[1],
                   !.min_y = coord[2], !.max_y = coord[2]]

\* mutant of dict_pop: the key is looked up but not removed
dict_pop_keeps(cells, coord) ==
    IF coord \in DOMAIN cells
    THEN [err |-> "none", cells |-> cells]
    ELSE [err |-> "KeyError", cells |-> cells]

\* dict.pop(coord) without a default: KeyError when coord is not a key
dict_pop(cells, coord) ==
    IF coord \in DOMAIN cells
    THEN [err |-> "none",
          cells |-> IF DOMAIN cells = {coord} THEN <<>>
                    ELSE [c \in (DOMAIN cells) \ {coord} |-> cells[c]]]
    ELSE [err |-> "KeyError", cells |-> cells]

\* mutant of dict_store: a coordinate already stored keeps its colour
dict_store_setdefault(cells, coord, colour) ==
    [c \in (DOMAIN cells) \cup {coord} |-> IF c \in DOMAIN cells THEN cells[c] ELSE colour]

\* dict[coord] = colour
dict_store(cells, coord, colour) ==
    [c \in (DOMAIN cells) \cup {coord} |-> IF c = coord THEN colour ELSE cells[c]]

\* mutant of dict_get_default: a missing key is stored with the default, as by setdefault
dict_get_default_stores(cells, coord, default) ==
    IF coord \in DOMAIN cells
    THEN [val |-> cells[coord], cells |-> cells]
    ELSE [val |-> default, cells |-> dict_store(cells, coord, default)]

\* dict.get(coord, default): [val, cells], cells the dict after the call
dict_get_default(cells, coord, default) ==
    [val |-> IF coord \in DOMAIN cells THEN cells[coord] ELSE default, cells |-> cells]

\* the read operations of Grid as calls: [err, val, g], g the fields of the grid after
\* the call
Grid_read(g, op, coord) ==
    CASE op = "getitem" ->
            IF ~validate_coord(grid_cls, coord)
            THEN [err |-> "InvalidCoord", val |-> default_colour, g |-> g]
            ELSE LET got == dict_get_default(g.cells, coord, default_colour) IN
                 [err |-> "none", val |-> got.val, g |-> [g EXCEPT !.cells = got.cells]]
      [] op = "contains" ->
            [err |-> Grid_contains(g, coord).err, val |-> Grid_contains(g, coord).val,
             g |-> g]
      [] op = "iter" -> [err |-> "none", val |-> Grid_iter(g), g |-> g]
      [] op = "bbox" -> [err |-> "none", val |-> bbox(g), g |-> g]

\* mutant of Grid_setitem: the store_default test is dropped, every colour is stored
Grid_setitem_stores_default(g, coord, colour) ==
    IF ~validate_coord(grid_cls, coord)
    THEN [err |-> "InvalidCoord", g |-> g]
    ELSE LET g1 == update_bbox(g, coord) IN
         [err |-> "none", g |-> [g1 EXCEPT !.cells = dict_store(g1.cells, coord, colour)]]

\* Grid.__setitem__: [err, g] with g the grid fields after the call
\* mutant of Grid_setitem: the bounding box is set by the first write only
Grid_setitem_bbox_once(g, coord, colour) ==
    IF ~validate_coord(grid_cls, coord)
    THEN [err |-> "InvalidCoord", g |-> g]
    ELSE LET g1 == IF g.has_data THEN g ELSE update_bbox(g, coord) IN
         IF colour = default_colour /\ ~store_default
         THEN LET p == dict_pop(g1.cells, coord) IN
              [err |-> p.err, g |-> [g1 EXCEPT !.cells = p.cells]]
         ELSE [err |-> "none", g |-> [g1 EXCEPT !.cells = dict_store(g1.cells, coord, colour)]]

Grid_setitem(g, coord, colour) ==
    IF ~validate_coord(grid_cls, coord)
    THEN [err |-> "InvalidCoord", g |-> g]
    ELSE LET g1 == update_bbox(g, coord) IN
         IF colour = default_colour /\ ~store_default
         THEN LET p == dict_pop(g1.cells, coord) IN
              [err |-> p.err, g |-> [g1 EXCEPT !.cells = p.cells]]
         ELSE [err |-> "none", g |-> [g1 EXCEPT !.cells = dict_store(g1.cells, coord, colour)]]

(***************************************************************************)
(* Ant.                                                                    *)
(***************************************************************************)
Rule(ac, cc, nac, ncc, t) ==
    [ant_colour |-> ac, cell_colour |-> cc, new_ant_colour |-> nac,
     new_cell_colour |-> ncc, turn |-> t]

RuleKey(ac, cc) == <<ac, cc>>

(***************************************************************************)
(* grid.py: LR strings.  A string is a sequence of one-character strings;  *)
(* a dict is the sequence of its (key, value) pairs in insertion order.    *)
(***************************************************************************)
SquareGrid_lr_directions ==
    << << <<"F">>, 1 >>, << <<"N">>, 1 >>, << <<"R">>, 2 >>,
       << <<"B">>, 3 >>, << <<"U">>, 3 >>, << <<"L">>, 4 >> >>

HexGrid_lr_directions ==
    << << <<"F">>, 1 >>, << <<"N">>, 1 >>, << <<"R">>, 2 >>, << <<"R", "1">>, 2 >>,
       << <<"I">>, 3 >>, << <<"R", "2">>, 3 >>, << <<"B">>, 4 >>, << <<"U">>, 4 >>,
       << <<"E">>, 5 >>, << <<"L", "2">>, 5 >>, << <<"L">>, 6 >>, << <<"L", "1">>, 6 >> >>

TriangleGrid_lr_directions ==
    << << <<"R">>, 1 >>, << <<"B">>, 2 >>, << <<"L">>, 3 >> >>

lr_directions(cls) ==
    CASE cls = "SquareGrid" -> SquareGrid_lr_directions
      [] cls = "HexGrid" -> HexGrid_lr_directions
      [] cls = "TriangleGrid" -> TriangleGrid_lr_directions

\* dict.keys(): the keys in insertion order
dict_keys(d) == [i \in 1..Len(d) |-> d[i][1]]

\* d[key]
dict_get(d, key) == d[CHOOSE i \in 1..Len(d) : d[i][1] = key][2]

\* sorted(keys, key=len, reverse=True) for keys of at most n characters: stable, the
\* longest keys first
RECURSIVE sorted_by_len_reverse(_, _)
sorted_by_len_reverse(keys, n) ==
    IF n = 0 THEN <<>>
    ELSE SelectSeq(keys, LAMBDA k : Len(k) = n) \o sorted_by_len_reverse(keys, n - 1)

\* mutant of valid_tokens: the keys are tried in dict order, not longest first
valid_tokens_dict_order(cls) == dict_keys(lr_directions(cls))

\* valid_tokens of _tokenise_lr_string
valid_tokens(cls) ==
    LET keys == dict_keys(lr_directions(cls))
        longest == CHOOSE n \in {Len(keys[i]) : i \in 1..Len(keys)} :
                      \A i \in 1..Len(keys) : Len(keys[i]) <= n
    IN sorted_by_len_reverse(keys, longest)

\* str.startswith
startswith(str, token) ==
    Len(token) <= Len(str) /\ SubSeq(str, 1, Len(token)) = token

\* the while loop of _tokenise_lr_string: lr_str_ is what is left of the string,
\* yielded the tokens yielded so far
RECURSIVE tokenise_loop(_, _, _)
tokenise_loop(tokens, lr_str_, yielded) ==
    IF lr_str_ = <<>> THEN [err |-> "none", val |-> yielded]
    ELSE LET matching == {i \in 1..Len(tokens) : startswith(lr_str_, tokens[i])} IN
         IF matching = {} THEN [err |-> "ValueError", val |-> yielded]
         ELSE LET token == tokens[SetMin(matching)] IN
              tokenise_loop(tokens, SubSeq(lr_str_, Len(token) + 1, Len(lr_str_)),
                            Append(yielded, token))

\* Grid._tokenise_lr_string consumed to its end: [err, val], val the tokens yielded
tokenise_lr_string(cls, lr_str) == tokenise_loop(valid_tokens(cls), lr_str, <<>>)

\* mutant of rules_from_lr_string: the new cell colour is not wrapped to the token count
rules_from_lr_string_no_wrap(cls, lr_string) ==
    LET dirs == lr_directions(cls)
        tokenised == tokenise_lr_string(cls, lr_string)
        rule_tokens == tokenised.val
    IN IF tokenised.err # "none" THEN [err |-> "ValueError", val |-> <<>>]
       ELSE IF \E i \in 1..Len(rule_tokens) : rule_tokens[i] \notin Range(dict_keys(dirs))
       THEN [err |-> "ValueError", val |-> <<>>]
       ELSE [err |-> "none",
             val |-> [i \in 1..Len(rule_tokens) |->
                         Rule(0, i - 1, 0, i, dict_get(dirs, rule_tokens[i]))]]

\* Grid.rules_from_lr_string: [err, val], val the rule list (colour = i - 1)
\* mutant of rules_from_lr_string: the new ant colour is the cell colour of the rule
rules_from_lr_string_ant_follows_cell(cls, lr_string) ==
    LET dirs == lr_directions(cls)
        tokenised == tokenise_lr_string(cls, lr_string)
        rule_tokens == tokenised.val
    IN IF tokenised.err # "none" THEN [err |-> "ValueError", val |-> <<>>]
       ELSE IF \E i \in 1..Len(rule_tokens) : rule_tokens[i] \notin Range(dict_keys(dirs))
       THEN [err |-> "ValueError", val |-> <<>>]
       ELSE [err |-> "none",
             val |-> [i \in 1..Len(rule_tokens) |->
                         Rule(0, i - 1, i - 1, i % Len(rule_tokens),
                              dict_get(dirs, rule_tokens[i]))]]

rules_from_lr_string(cls, lr_string) ==
    LET dirs == lr_directions(cls)
        tokenised == tokenise_lr_string(cls, lr_string)
        rule_tokens == tokenised.val
    IN IF tokenised.err # "none" THEN [err |-> "ValueError", val |-> <<>>]
       ELSE IF \E i \in 1..Len(rule_tokens) : rule_tokens[i] \notin Range(dict_keys(dirs))
       THEN [err |-> "ValueError", val |-> <<>>]
       ELSE [err |-> "none",
             val |-> [i \in 1..Len(rule_tokens) |->
                         Rule(0, i - 1, 0, i % Len(rule_tokens),
                              dict_get(dirs, rule_tokens[i]))]]

\* characters of the LR strings drawn: letters and digits of the token tables and "X",
\* which is in none of them
LRAlphabet == {"L", "R", "F", "1", "2", "3", "X"}

\* the strings over LRAlphabet of at most MaxStrLen characters
LRStrings == UNION {[1..n -> LRAlphabet] : n \in 0..MaxStrLen}

\* the keys Ant.__init__ prints a duplicate-rules warning for, in the order printed
Ant_init_warnings(rules) ==
    LET key(i) == RuleKey(rules[i].ant_colour, rules[i].cell_colour)
        warned == SelectSeq([i \in 1..Len(rules) |-> i],
                            LAMBDA i : \E j \in 1..(i - 1) : key(j) = key(i))
    IN [n \in 1..Len(warned) |-> key(warned[n])]

\* mutant of Ant_rules: an earlier rule is kept when a later one has the same key
Ant_rules_first_wins(rules) ==
    [key \in {RuleKey(rules[i].ant_colour, rules[i].cell_colour) : i \in 1..Len(rules)} |->
        LET is == {i \in 1..Len(rules) :
                       RuleKey(rules[i].ant_colour, rules[i].cell_colour) = key}
        IN rules[CHOOSE i \in is : \A j \in is : i <= j]]

\* the loop of Ant.__init__ filling self._rules: a later rule replaces an earlier one
Ant_rules(rules) ==
    [key \in {RuleKey(rules[i].ant_colour, rules[i].cell_colour) : i \in 1..Len(rules)} |->
        LET is == {i \in 1..Len(rules) :
                       RuleKey(rules[i].ant_colour, rules[i].cell_colour) = key}
        IN rules[CHOOSE i \in is : \A j \in is : j <= i]]

\* Ant.__init__
Ant_init(rules, position, direction, colour) ==
    [position |-> position, direction |-> direction, colour |-> colour,
     prev_position |-> position, rules |-> Ant_rules(rules)]

\* mutant of Ant_commit: _prev_position is assigned after the state, from the new state
Ant_commit_prev_after(a, new_position, new_direction, rule) ==
    [a EXCEPT !.prev_position = new_position, !.position = new_position,
              !.direction = new_direction, !.colour = rule.new_ant_colour]

\* the last two statements of Ant.step
Ant_commit(a, new_position, new_direction, rule) ==
    [a EXCEPT !.prev_position = a.position, !.position = new_position,
              !.direction = new_direction, !.colour = rule.new_ant_colour]

\* mutant of Ant_step: the ant moves in the direction it had before the turn
Ant_step_moves_before_turn(g, a) ==
    LET cell == Grid_getitem(g, a.position) IN
    IF cell.err # "none"
    THEN [err |-> cell.err, g |-> g, a |-> a, sets |-> <<>>]
    ELSE LET rule_key == RuleKey(a.colour, cell.val) IN
    IF rule_key \notin DOMAIN a.rules
    THEN [err |-> "KeyError", g |-> g, a |-> a, sets |-> <<>>]
    ELSE LET rule == a.rules[rule_key]
             painted == Grid_setitem(g, a.position, rule.new_cell_colour)
             sets == << <<a.position, rule.new_cell_colour>> >>
         IN
    IF painted.err # "none"
    THEN [err |-> painted.err, g |-> painted.g, a |-> a, sets |-> sets]
    ELSE LET new_direction == get_direction(grid_cls, a.position, a.direction, rule.turn) IN
    IF new_direction.err # "none"
    THEN [err |-> new_direction.err, g |-> painted.g, a |-> a, sets |-> sets]
    ELSE LET new_position == get_neighbour(grid_cls, a.position, a.direction) IN
    IF new_position.err # "none"
    THEN [err |-> new_position.err, g |-> painted.g, a |-> a, sets |-> sets]
    ELSE [err |-> "none", g |-> painted.g,
          a |-> Ant_commit(a, new_position.val, new_direction.val, rule), sets |-> sets]

\* Ant.step: [err, g, a, sets] with g and a the grid fields and the ant after the
\* call, and sets the __setitem__ calls it made
Ant_step(g, a) ==
    LET cell == Grid_getitem(g, a.position) IN
    IF cell.err # "none"
    THEN [err |-> cell.err, g |-> g, a |-> a, sets |-> <<>>]
    ELSE LET rule_key == RuleKey(a.colour, cell.val) IN
    IF rule_key \notin DOMAIN a.rules
    THEN [err |-> "KeyError", g |-> g, a |-> a, sets |-> <<>>]
    ELSE LET rule == a.rules[rule_key]
             painted == Grid_setitem(g, a.position, rule.new_cell_colour)
             sets == << <<a.position, rule.new_cell_colour>> >>
         IN
    IF painted.err # "none"
    THEN [err |-> painted.err, g |-> painted.g, a |-> a, sets |-> sets]
    ELSE LET new_direction == get_direction(grid_cls, a.position, a.direction, rule.turn) IN
    IF new_direction.err # "none"
    THEN [err |-> new_direction.err, g |-> painted.g, a |-> a, sets |-> sets]
    ELSE LET new_position == get_neighbour(grid_cls, a.position, new_direction.val) IN
    IF new_position.err # "none"
    THEN [err |-> new_position.err, g |-> painted.g, a |-> a, sets |-> sets]
    ELSE [err |-> "none", g |-> painted.g,
          a |-> Ant_commit(a, new_position.val, new_direction.val, rule), sets |-> sets]

(***************************************************************************)
(* Inputs.                                                                 *)
(***************************************************************************)
\* rule lists handed to Ant.__init__: the rules of the LR string "LR", a one-rule
\* list that repaints colour 0 with colour 0, a list covering ant colour 0 only
\* whose rules switch the ant to colour 1, a list covering two ant colours, and a
\* list whose first and last rule have the same key
RuleLists ==
    { <<Rule(0, 0, 0, 1, 4), Rule(0, 1, 0, 0, 2)>>,
      <<Rule(0, 0, 0, 0, 1)>>,
      <<Rule(0, 0, 1, 1, 2), Rule(0, 1, 1, 0, 3)>>,
      <<Rule(0, 0, 1, 1, 2), Rule(1, 0, 0, 1, 3), Rule(1, 1, 0, 0, 1), Rule(0, 1, 1, 0, 2)>>,
      <<Rule(0, 0, 0, 0, 2), Rule(0, 1, 0, 0, 1), Rule(0, 0, 0, 1, 4)>> }

\* start positions of an ant: an even cell, an odd cell, and a coordinate that is
\* invalid on a TriangleGrid
StartPositions == {<<0, 0>>, <<1, 1>>, <<1, 0>>}

NoCall == [op |-> "init", ant |-> 0, coord |-> <<0, 0>>, colour |-> 0]

NoArg == [coord |-> <<0, 0>>, direction |-> NORTH, turn |-> 1]

NoRet == [fn |-> "none", err |-> "none", val |-> 0]

\* the Grid instances there are: two grids of class grid_cls constructed alike
GridIds == {1, 2}

\* the driver before any ant is made; trace lists the calls of step made as <<tick, ant>>,
\* stepped_from the positions the calls that returned were made from
NoRun == [pc |-> "setup", grids |-> <<>>, registry |-> [g \in GridIds |-> <<>>],
          validated |-> [err |-> "none", val |-> 0], i |-> 0, k |-> 0, trace |-> <<>>,
          stepped_from |-> <<>>]

NoTwin == [pc |-> "setup", grid |-> Grid_init, ants |-> <<>>, i |-> 0, k |-> 0]

(***************************************************************************)
(* main.py: the driver.                                                    *)
(***************************************************************************)
\* start_direction of run(): NORTH, NORTH_WEST on a HexGrid
start_direction(cls) == IF cls = "HexGrid" THEN NORTH_WEST ELSE NORTH

\* Grid.add_ant on the list _ants
Grid_add_ant(registered, ant) == Append(registered, ant)

\* mutant of Grid_ants: the list _ants itself is returned
Grid_ants_no_copy(registered) == [val |-> registered, is_copy |-> FALSE]

\* Grid.ants: self._ants[:], a new list with the same elements
Grid_ants(registered) == [val |-> registered, is_copy |-> TRUE]

\* mutant of validate_ants: the grids of the ants are not compared
validate_ants_unchecked(grids) == [err |-> "none", val |-> grids[1]]

\* validate_ants on a non-empty list of ants, grids[a] the instance ant a refers to:
\* [err, val]
validate_ants(grids) ==
    IF \E a \in 2..Len(grids) : grids[a] # grids[1]
    THEN [err |-> "ValueError", val |-> 0]
    ELSE [err |-> "none", val |-> grids[1]]

\* mutant of loop_next: the loop may take any ant of the list
loop_next_any(n, k) == 1..n

\* for ant in ants: the ants the loop may take after k iterations over a list of n
\* ants; a list is iterated in index order
loop_next(n, k) == {k + 1}

\* mutant of loop_advance: the tick ends before the last ant of the list
loop_advance_skips_last(n, i, k) ==
    IF k + 2 >= n THEN [i |-> i + 1, k |-> 0] ELSE [i |-> i, k |-> k + 1]

\* the loop variables after one more ant.step(): the tick i ends with the last ant
loop_advance(n, i, k) ==
    IF k + 1 = n THEN [i |-> i + 1, k |-> 0] ELSE [i |-> i, k |-> k + 1]

\* LR strings given to make_ant: "LR", "RL", "RRL", "BB", whose ant turns back at every
\* step, and the invalid "LX"
RunLRStrings ==
    { <<"L", "R">>, <<"R", "L">>, <<"R", "R", "L">>, <<"B", "B">>, <<"L", "X">> }

(***************************************************************************)
(* Initial states.                                                         *)
(***************************************************************************)
\* a grid class constructed with any options, no ant
InitGrid ==
    /\ grid_cls \in GridClasses
    /\ default_colour \in DefaultColours
    /\ store_default \in BOOLEAN
    /\ grid = Grid_init
    /\ ants = <<>>
    /\ err = "none"
    /\ last = NoCall
    /\ written = <<>>
    /\ passed = {}
    /\ nsets = 0
    /\ nsteps = 0
    /\ arg = NoArg
    /\ ret = NoRet
    /\ run = NoRun
    /\ twin = NoTwin

\* a grid and one ant constructed on it
Init ==
    /\ grid_cls \in GridClasses
    /\ default_colour \in DefaultColours
    /\ store_default \in BOOLEAN
    /\ grid = Grid_init
    /\ \E rules \in RuleLists, position \in StartPositions,
          direction \in CardinalDirection :
          /\ ants = <<Ant_init(rules, position, direction, 0)>>
          /\ arg = [rules |-> rules, position |-> position, direction |-> direction]
    /\ err = "none"
    /\ last = NoCall
    /\ written = <<>>
    /\ passed = {}
    /\ nsets = 0
    /\ nsteps = 0
    /\ ret = NoRet
    /\ run = NoRun
    /\ twin = NoTwin

\* arguments drawn for the topology functions of a grid class
InitTopo ==
    /\ grid_cls \in GridClasses
    /\ default_colour = 0
    /\ store_default = FALSE
    /\ grid = Grid_init
    /\ ants = <<>>
    /\ err = "none"
    /\ last = NoCall
    /\ written = <<>>
    /\ passed = {}
    /\ nsets = 0
    /\ nsteps = 0
    /\ arg \in [coord : TopoCoords, direction : CardinalDirection, turn : 1..MaxTurn]
    /\ ret = NoRet
    /\ run = NoRun
    /\ twin = NoTwin

\* the Vector and GridCoord objects drawn as operands of +
Operands == [cls : {"Vector", "GridCoord"}, x : -MaxTopoCoord..MaxTopoCoord,
             y : -MaxTopoCoord..MaxTopoCoord]

\* two operands drawn for +
InitAdd ==
    /\ grid_cls = "SquareGrid"
    /\ default_colour = 0
    /\ store_default = FALSE
    /\ grid = Grid_init
    /\ ants = <<>>
    /\ err = "none"
    /\ last = NoCall
    /\ written = <<>>
    /\ passed = {}
    /\ nsets = 0
    /\ nsteps = 0
    /\ arg \in [a : Operands, b : Operands]
    /\ ret = NoRet
    /\ run = NoRun
    /\ twin = NoTwin

\* LR strings drawn for the tokeniser and the rule compiler of a grid class
InitLR ==
    /\ grid_cls \in GridClasses
    /\ default_colour = 0
    /\ store_default = FALSE
    /\ grid = Grid_init
    /\ ants = <<>>
    /\ err = "none"
    /\ last = NoCall
    /\ written = <<>>
    /\ passed = {}
    /\ nsets = 0
    /\ nsteps = 0
    /\ arg \in [lr : LRStrings]
    /\ ret = NoRet
    /\ run = NoRun
    /\ twin = NoTwin

\* run() as far as the grid: a grid of any class that stores the default colour 0
InitRun ==
    /\ grid_cls \in GridClasses
    /\ default_colour = 0
    /\ store_default = TRUE
    /\ grid = Grid_init
    /\ ants = <<>>
    /\ err = "none"
    /\ last = NoCall
    /\ written = <<>>
    /\ passed = {}
    /\ nsets = 0
    /\ nsteps = 0
    /\ arg = NoArg
    /\ ret = NoRet
    /\ run = NoRun
    /\ twin = NoTwin

(***************************************************************************)
(* Actions.                                                                *)
(***************************************************************************)
\* the call log kept for a __setitem__(coord, colour) call
LogSets(sets) ==
    /\ passed' = passed \cup {sets[i][1] : i \in 1..Len(sets)}
    /\ written' = IF Len(sets) = 1 /\ validate_coord(grid_cls, sets[1][1])
                  THEN dict_store(written, sets[1][1], sets[1][2])
                  ELSE written

\* grid[coord] = colour
SetItem(coord, colour) ==
    /\ nsets < MaxOps
    /\ LET r == Grid_setitem(grid, coord, colour) IN
       /\ grid' = r.g
       /\ err' = r.err
    /\ last' = [op |-> "set", ant |-> 0, coord |-> coord, colour |-> colour]
    /\ LogSets(<< <<coord, colour>> >>)
    /\ nsets' = nsets + 1
    /\ UNCHANGED <<grid_cls, default_colour, store_default, ants, nsteps, arg, ret, run, twin>>

\* ants[i].step()
Step(i) ==
    /\ nsteps < MaxSteps
    /\ LET r == Ant_step(grid, ants[i]) IN
       /\ grid' = r.g
       /\ ants' = [ants EXCEPT ![i] = r.a]
       /\ err' = r.err
       /\ LogSets(r.sets)
    /\ last' = [op |-> "step", ant |-> i, coord |-> ants[i].position, colour |-> 0]
    /\ nsteps' = nsteps + 1
    /\ UNCHANGED <<grid_cls, default_colour, store_default, nsets, arg, ret, run, twin>>

\* grid.get_neighbour(arg.coord, arg.direction)
CallGetNeighbour ==
    /\ ret' = [fn |-> "get_neighbour"] @@ get_neighbour(grid_cls, arg.coord, arg.direction)
    /\ UNCHANGED <<grid_cls, default_colour, store_default, grid, ants, err, last,
                   written, passed, nsets, nsteps, arg, run, twin>>

\* grid.get_direction_vectors(arg.coord)
CallGetDirectionVectors ==
    /\ ret' = [fn |-> "get_direction_vectors", err |-> "none",
               val |-> get_direction_vectors(grid_cls, arg.coord)]
    /\ UNCHANGED <<grid_cls, default_colour, store_default, grid, ants, err, last,
                   written, passed, nsets, nsteps, arg, run, twin>>

\* grid.get_direction(arg.coord, arg.direction, arg.turn)
CallGetDirection ==
    /\ ret' = [fn |-> "get_direction"] @@
                 get_direction(grid_cls, arg.coord, arg.direction, arg.turn)
    /\ UNCHANGED <<grid_cls, default_colour, store_default, grid, ants, err, last,
                   written, passed, nsets, nsteps, arg, run, twin>>

NextGrid == \E coord \in Coords, colour \in CellColours : SetItem(coord, colour)

Next ==
    \/ \E i \in 1..Len(ants) : Step(i)
    \/ \E coord \in StartPositions, colour \in CellColours :
          nsets < MaxExternalSets /\ SetItem(coord, colour)

\* list(grid_cls._tokenise_lr_string(arg.lr))
CallTokenise ==
    /\ ret' = [fn |-> "_tokenise_lr_string"] @@ tokenise_lr_string(grid_cls, arg.lr)
    /\ UNCHANGED <<grid_cls, default_colour, store_default, grid, ants, err, last,
                   written, passed, nsets, nsteps, arg, run, twin>>

\* grid_cls.rules_from_lr_string(arg.lr)
CallRulesFromLRString ==
    /\ ret' = [fn |-> "rules_from_lr_string"] @@ rules_from_lr_string(grid_cls, arg.lr)
    /\ UNCHANGED <<grid_cls, default_colour, store_default, grid, ants, err, last,
                   written, passed, nsets, nsteps, arg, run, twin>>

\* grid_cls.get_ant_angle(arg.direction)
CallGetAntAngle ==
    /\ ret' = [fn |-> "get_ant_angle"] @@ get_ant_angle(grid_cls, arg.direction)
    /\ UNCHANGED <<grid_cls, default_colour, store_default, grid, ants, err, last,
                   written, passed, nsets, nsteps, arg, run, twin>>

\* arg.a + arg.b
CallAdd ==
    /\ ret' = [fn |-> "add"] @@ binary_add(arg.a, arg.b)
    /\ UNCHANGED <<grid_cls, default_colour, store_default, grid, ants, err, last,
                   written, passed, nsets, nsteps, arg, run, twin>>

\* ants.append(make_ant(lr, grid g, start_direction=start_direction))
MakeAnt(lr, g) ==
    /\ run.pc = "setup"
    /\ Len(ants) < MaxAnts
    /\ arg' = [lr |-> lr, grid |-> g]
    /\ LET rules == rules_from_lr_string(grid_cls, lr)
           new == Len(ants) + 1
       IN IF rules.err # "none"
          THEN /\ err' = rules.err
               /\ last' = [op |-> "make_ant", ant |-> 0, coord |-> <<0, 0>>, colour |-> 0]
               /\ UNCHANGED <<ants, run>>
          ELSE /\ err' = "none"
               /\ last' = [op |-> "make_ant", ant |-> new, coord |-> <<0, 0>>, colour |-> 0]
               /\ ants' = Append(ants, Ant_init(rules.val, <<0, 0>>,
                                                start_direction(grid_cls), 0))
               /\ run' = [run EXCEPT !.grids = Append(@, g),
                                     !.registry[g] = Grid_add_ant(@, new)]
    /\ UNCHANGED <<grid_cls, default_colour, store_default, grid, written, passed,
                   nsets, nsteps, ret, twin>>

\* lst = (grid g).ants
CallAnts(g) ==
    /\ ret' = [fn |-> "ants", err |-> "none", grid |-> g] @@ Grid_ants(run.registry[g])
    /\ UNCHANGED <<grid_cls, default_colour, store_default, grid, ants, err, last,
                   written, passed, nsets, nsteps, arg, run, twin>>

\* the read operations called on the grid, and the coordinates they are called with
ReadOps == {"getitem", "contains", "iter", "bbox"}

\* grid[coord], coord in grid, set(grid), grid.bbox; the value returned is kept in the
\* field of ret named as the operation
CallRead(op, coord) ==
    /\ LET r == Grid_read(grid, op, coord) IN
       /\ ret' = [fn |-> op, coord |-> coord, err |-> r.err] @@ (op :> r.val)
       /\ grid' = r.g
    /\ UNCHANGED <<grid_cls, default_colour, store_default, ants, err, last,
                   written, passed, nsets, nsteps, arg, run, twin>>

\* the caller removes the first element of the list ants returned; the list _ants
\* changes with it if it is the same list
ChangeReturnedList ==
    /\ ret.fn = "ants" /\ ret.val # <<>>
    /\ ret' = [ret EXCEPT !.fn = "ants_changed", !.val = Tail(@)]
    /\ run' = IF ret.is_copy THEN run
              ELSE [run EXCEPT !.registry[ret.grid] = Tail(@)]
    /\ UNCHANGED <<grid_cls, default_colour, store_default, grid, ants, err, last,
                   written, passed, nsets, nsteps, arg, twin>>

\* _run_live up to its loop: return at once without ants, else validate_ants
StartRun ==
    /\ run.pc = "setup"
    /\ last' = [op |-> "run", ant |-> 0, coord |-> <<0, 0>>, colour |-> 0]
    /\ IF ants = <<>>
       THEN /\ run' = [run EXCEPT !.pc = "done"]
            /\ err' = "none"
            /\ UNCHANGED twin
       ELSE LET validated == validate_ants(run.grids) IN
            /\ err' = validated.err
            /\ run' = [run EXCEPT !.validated = validated,
                                  !.pc = IF validated.err = "none" THEN "loop"
                                                                   ELSE "failed"]
            /\ twin' = IF validated.err = "none"
                       THEN [pc |-> "loop", grid |-> grid, ants |-> ants, i |-> 0, k |-> 0]
                       ELSE twin
    /\ UNCHANGED <<grid_cls, default_colour, store_default, grid, ants, written, passed,
                   nsets, nsteps, arg, ret>>

\* one ant.step() of the loop "for i in range(step_limit): for ant in ants", with
\* step_limit = MaxTicks; an exception of step ends the run
StepNext ==
    /\ run.pc = "loop"
    /\ \E a \in loop_next(Len(ants), run.k) :
          LET r == Ant_step(grid, ants[a])
              next == loop_advance(Len(ants), run.i, run.k)
          IN /\ grid' = r.g
             /\ ants' = [ants EXCEPT ![a] = r.a]
             /\ err' = r.err
             /\ LogSets(r.sets)
             /\ last' = [op |-> "step", ant |-> a, coord |-> ants[a].position,
                         colour |-> 0]
             /\ run' = IF r.err # "none"
                       THEN [run EXCEPT !.pc = "failed",
                                        !.trace = Append(@, <<run.i, a>>)]
                       ELSE [run EXCEPT !.pc = IF next.i = MaxTicks THEN "done" ELSE "loop",
                                        !.i = next.i, !.k = next.k,
                                        !.trace = Append(@, <<run.i, a>>),
                                        !.stepped_from = Append(@, ants[a].position)]
    /\ nsteps' = nsteps + 1
    /\ UNCHANGED <<grid_cls, default_colour, store_default, nsets, arg, ret, twin>>

\* KeyboardInterrupt, the window being closed or the size limit: break
Interrupt ==
    /\ run.pc = "loop"
    /\ run' = [run EXCEPT !.pc = "done"]
    /\ UNCHANGED <<grid_cls, default_colour, store_default, grid, ants, err, last,
                   written, passed, nsets, nsteps, arg, ret, twin>>

\* one ant.step() of the second run
TwinStep ==
    /\ twin.pc = "loop"
    /\ \E a \in loop_next(Len(twin.ants), twin.k) :
          LET r == Ant_step(twin.grid, twin.ants[a])
              next == loop_advance(Len(twin.ants), twin.i, twin.k)
          IN twin' = IF r.err # "none"
                     THEN [twin EXCEPT !.pc = "failed", !.grid = r.g]
                     ELSE [pc |-> IF next.i = MaxTicks THEN "done" ELSE "loop",
                           grid |-> r.g, ants |-> [twin.ants EXCEPT ![a] = r.a],
                           i |-> next.i, k |-> next.k]
    /\ UNCHANGED <<grid_cls, default_colour, store_default, grid, ants, err, last,
                   written, passed, nsets, nsteps, arg, ret, run>>

NextTopo ==
    \/ CallGetNeighbour
    \/ CallGetDirectionVectors
    \/ CallGetDirection
    \/ CallGetAntAngle

SpecGrid == InitGrid /\ [][NextGrid]_vars

Spec == Init /\ [][Next]_vars

SpecTopo == InitTopo /\ [][NextTopo]_vars

NextLR ==
    \/ CallTokenise
    \/ CallRulesFromLRString

SpecLR == InitLR /\ [][NextLR]_vars

NextAdd == CallAdd

\* the driver run twice from the same start
NextRun ==
    \/ \E lr \in RunLRStrings, g \in GridIds : MakeAnt(lr, g)
    \/ StartRun
    \/ StepNext
    \/ Interrupt
    \/ TwinStep

SpecRun == InitRun /\ [][NextRun]_vars

\* the driver run once, with calls of Grid.ants at any time
NextAnts ==
    \/ \E lr \in RunLRStrings, g \in GridIds : MakeAnt(lr, g)
    \/ \E g \in GridIds : CallAnts(g)
    \/ ChangeReturnedList
    \/ StartRun
    \/ StepNext

SpecAnts == InitRun /\ [][NextAnts]_vars

\* the driver run once with ants of "LR", with calls of the read operations of the
\* grid at any time; iterate and bbox take no coordinate
NextRead ==
    \/ \E g \in GridIds : MakeAnt(<<"L", "R">>, g)
    \/ \E g \in GridIds : CallAnts(g)
    \/ \E op \in {"getitem", "contains"}, coord \in StartPositions : CallRead(op, coord)
    \/ \E op \in {"iter", "bbox"} : CallRead(op, <<0, 0>>)
    \/ StartRun
    \/ StepNext

SpecRead == InitRun /\ [][NextRead]_vars

SpecAdd == InitAdd /\ [][NextAdd]_vars

(***************************************************************************)
(* Properties.                                                             *)
(***************************************************************************)
\* coord lies inside the fast bounding box of g
InBbox(g, coord) ==
    /\ g.min_x <= coord[1] /\ coord[1] <= g.max_x
    /\ g.min_y <= coord[2] /\ coord[2] <= g.max_y

\* the transition is a __setitem__ call made from outside
IsSetCall == nsets' = nsets + 1

\* the transition is a step call of ant i
IsStepCall(i) == nsteps' = nsteps + 1 /\ last'.ant = i

\* C1 (SpecGrid): on a grid built with the default options (store_default false, any
\* default colour), after any sequence of set calls iterate() yields exactly the pairs
\* (c, v) where v is the colour last written to c and v is not the default colour.
C1_IterYieldsLastWritten ==
    ~store_default =>
        Grid_iter(grid) = {<<c, written[c]>> :
                             c \in {d \in DOMAIN written : written[d] # default_colour}}

\* C1 witness: the default colour was written at a coordinate that was stored, which
\* removed it, while another coordinate is still yielded.
C1_Witness ==
    /\ ~store_default
    /\ last.op = "set" /\ last.colour = default_colour /\ err = "none"
    /\ last.coord \notin DOMAIN grid.cells

\* C2 as stated (Spec): in every reachable state of every grid, whatever its
\* construction options, no stored entry has the default colour.
C2_NoStoredDefaultAnyOptions ==
    \A c \in DOMAIN grid.cells : grid.cells[c] # default_colour

\* C2 amended (Spec): on a grid constructed with store_default false, after any set
\* calls and ant steps, no stored entry has the default colour.
C2_NoStoredDefault ==
    ~store_default => \A c \in DOMAIN grid.cells : grid.cells[c] # default_colour

\* C2 witness: on such a grid an ant step has repainted a stored cell with the default
\* colour, and the entry is gone.
C2_Witness ==
    /\ ~store_default
    /\ last.op = "step" /\ err = "none"
    /\ last.coord \in DOMAIN written /\ written[last.coord] = default_colour
    /\ last.coord \notin DOMAIN grid.cells
    /\ DOMAIN grid.cells # {}

\* C3 (SpecGrid): set(coord, default colour) on a valid coordinate always succeeds,
\* stored or not; afterwards nothing is stored at coord and get(coord) is the default.
\* Stated for the grids of the default options, where the default is never stored.
C3_SetDefaultSucceeds ==
    (/\ ~store_default
     /\ last.op = "set" /\ last.colour = default_colour
     /\ validate_coord(grid_cls, last.coord))
    => /\ err = "none"
       /\ last.coord \notin DOMAIN grid.cells
       /\ Grid_getitem(grid, last.coord).val = default_colour

\* C4 (Spec): a step that fails, for whatever reason, leaves the grid (cells and fast
\* bounding box) and the ant exactly as they were.  Stated for the grids the driver
\* builds (store_default true), on which __setitem__ itself cannot fail.
C4_FailedStepChangesNothing ==
    [][\A i \in 1..Len(ants) :
          (store_default /\ IsStepCall(i) /\ err' # "none") =>
              (grid' = grid /\ ants' = ants)]_vars

\* C5 (Spec): a successful step of an ant at p with direction d and colour s, on a cell
\* of colour k with rule r for (s, k), leaves cell p with r.new_cell_colour, the ant
\* facing rotate(p, d, r.turn), standing on neighbour(p, new direction), with previous
\* position p and colour r.new_ant_colour.
C5_SuccessfulStep ==
    [][\A i \in 1..Len(ants) :
          (IsStepCall(i) /\ err' = "none") =>
             LET p == ants[i].position
                 d == ants[i].direction
                 s == ants[i].colour
                 k == Grid_getitem(grid, p).val
                 r == ants[i].rules[RuleKey(s, k)]
                 nd == get_direction(grid_cls, p, d, r.turn).val
             IN /\ Grid_getitem(grid', p).val = r.new_cell_colour
                /\ ants'[i].direction = nd
                /\ ants'[i].position = get_neighbour(grid_cls, p, nd).val
                /\ ants'[i].prev_position = p
                /\ ants'[i].colour = r.new_ant_colour]_vars

\* C5 witness: an ant has made two successful steps, the last one changing its colour
\* and moving it away from the cell it repainted.
C5_Witness ==
    /\ last.op = "step" /\ err = "none" /\ nsteps >= 2
    /\ ants[1].prev_position = last.coord
    /\ ants[1].position # ants[1].prev_position
    /\ ants[1].colour = 1

\* C6 (Spec): a step of an ant on a valid cell raises the unhandled-rule error
\* (KeyError) exactly when its rule table has no entry for (ant colour, cell colour),
\* and then neither the grid nor the ant has changed.
C6_UnhandledRuleExactly ==
    [][\A i \in 1..Len(ants) :
          (IsStepCall(i) /\ validate_coord(grid_cls, ants[i].position)) =>
             LET key == RuleKey(ants[i].colour, Grid_getitem(grid, ants[i].position).val)
             IN /\ (err' = "KeyError") <=> (key \notin DOMAIN ants[i].rules)
                /\ (err' = "KeyError") => (grid' = grid /\ ants' = ants)]_vars

\* C7 as stated (SpecGrid): starting from the fresh grid, no set call shrinks the fast
\* bounding box, and after each call the box contains every coordinate ever passed
\* to set.
C7_BboxNeverShrinks ==
    [][IsSetCall =>
          /\ grid'.min_x <= grid.min_x /\ grid'.min_y <= grid.min_y
          /\ grid'.max_x >= grid.max_x /\ grid'.max_y >= grid.max_y
          /\ \A c \in passed' : InBbox(grid', c)]_vars

\* C7 amended (SpecGrid): once a first set call has initialised it, no set call
\* shrinks the fast bounding box; after each call the box contains every coordinate
\* valid for the topology ever passed to set, default-colour writes included.
C7_BboxNeverShrinksOnceInitialised ==
    [][IsSetCall =>
          /\ grid.has_data =>
                /\ grid'.min_x <= grid.min_x /\ grid'.min_y <= grid.min_y
                /\ grid'.max_x >= grid.max_x /\ grid'.max_y >= grid.max_y
          /\ \A c \in passed' : validate_coord(grid_cls, c) => InBbox(grid', c)]_vars

\* C7 witness: a second set call, writing the default colour, has widened the box.
C7_Witness ==
    /\ nsets = 2 /\ last.op = "set" /\ last.colour = default_colour
    /\ grid.min_x < grid.max_x /\ grid.min_y < grid.max_y
    /\ Cardinality(passed) = 2

\* C8 (SpecTopo): at a valid coordinate c, neighbour(c, d) returns
\* c + directionVectors(c)[d] if d is a key of directionVectors(c), and raises
\* InvalidDirection for every other compass direction.
C8_NeighbourIffDirectionVector ==
    (ret.fn = "get_neighbour" /\ validate_coord(grid_cls, arg.coord)) =>
        LET dv == get_direction_vectors(grid_cls, arg.coord) IN
        IF arg.direction \in DOMAIN dv
        THEN ret.err = "none" /\ ret.val = GridCoord_add(arg.coord, dv[arg.direction])
        ELSE ret.err = "InvalidDirection"

\* C8 witness: a neighbour was returned on a triangular grid.
C8_Witness ==
    /\ ret.fn = "get_neighbour" /\ grid_cls = "TriangleGrid"
    /\ ret.err = "none" /\ ret.val # arg.coord

\* the direction tables C9 states, written out
C9_Square == (NORTH :> <<0, -1>>) @@ (EAST :> <<1, 0>>) @@ (SOUTH :> <<0, 1>>) @@ (WEST :> <<-1, 0>>)

C9_HexEvenRow ==
    (EAST :> <<1, 0>>) @@ (WEST :> <<-1, 0>>) @@ (NORTH_EAST :> <<0, -1>>) @@
    (SOUTH_EAST :> <<0, 1>>) @@ (NORTH_WEST :> <<-1, -1>>) @@ (SOUTH_WEST :> <<-1, 1>>)

C9_HexOddRow ==
    (EAST :> <<1, 0>>) @@ (WEST :> <<-1, 0>>) @@ (NORTH_EAST :> <<1, -1>>) @@
    (SOUTH_EAST :> <<1, 1>>) @@ (NORTH_WEST :> <<0, -1>>) @@ (SOUTH_WEST :> <<0, 1>>)

\* C9 (SpecTopo): directionVectors is the N,E,S,W table on a Square grid, the even-row
\* or odd-row table of six directions on a Hexagonal grid (row parity y mod 2), and on
\* a Triangular grid has exactly the keys NE,NW,S at even and N,SE,SW at odd coordinates.
C9_DirectionVectors ==
    ret.fn = "get_direction_vectors" =>
        LET x == arg.coord[1]
            y == arg.coord[2]
        IN /\ grid_cls = "SquareGrid" => ret.val = C9_Square
           /\ (grid_cls = "HexGrid" /\ y % 2 = 0) => ret.val = C9_HexEvenRow
           /\ (grid_cls = "HexGrid" /\ y % 2 = 1) => ret.val = C9_HexOddRow
           /\ (grid_cls = "TriangleGrid" /\ x % 2 = 0 /\ y % 2 = 0) =>
                 DOMAIN ret.val = {NORTH_EAST, NORTH_WEST, SOUTH}
           /\ (grid_cls = "TriangleGrid" /\ x % 2 = 1 /\ y % 2 = 1) =>
                 DOMAIN ret.val = {NORTH, SOUTH_EAST, SOUTH_WEST}

\* C9 witness: the vectors of an odd row with negative y on a hexagonal grid.
C9_Witness ==
    /\ ret.fn = "get_direction_vectors" /\ grid_cls = "HexGrid"
    /\ arg.coord[2] = -1 /\ arg.coord[1] = 2

\* the moves C10 states for an odd and for an even triangular cell
C10_OddMoves == (NORTH_EAST :> <<1, -1>>) @@ (SOUTH :> <<-1, 1>>) @@ (NORTH_WEST :> <<-1, -1>>)

C10_EvenMoves == (NORTH :> <<1, -1>>) @@ (SOUTH_EAST :> <<1, 1>>) @@ (SOUTH_WEST :> <<-1, 1>>)

\* C10 (SpecTopo): on a Triangular grid get_neighbour at an odd cell succeeds exactly
\* for NE, S, NW, moving by (1,-1), (-1,1), (-1,-1), and at an even cell exactly for
\* N, SE, SW, moving by (1,-1), (1,1), (-1,1); every other direction raises
\* InvalidDirection.
C10_TriangleNeighbours ==
    (/\ ret.fn = "get_neighbour" /\ grid_cls = "TriangleGrid"
     /\ validate_coord(grid_cls, arg.coord)) =>
        LET moves == IF arg.coord[1] % 2 = 1 THEN C10_OddMoves ELSE C10_EvenMoves IN
        IF arg.direction \in DOMAIN moves
        THEN ret.err = "none" /\ ret.val = GridCoord_add(arg.coord, moves[arg.direction])
        ELSE ret.err = "InvalidDirection"

\* the opposite of a compass direction: N/S, E/W, NE/SW, NW/SE
C11_Opposite ==
    (NORTH :> SOUTH) @@ (SOUTH :> NORTH) @@ (EAST :> WEST) @@ (WEST :> EAST) @@
    (NORTH_EAST :> SOUTH_WEST) @@ (SOUTH_WEST :> NORTH_EAST) @@
    (NORTH_WEST :> SOUTH_EAST) @@ (SOUTH_EAST :> NORTH_WEST)

\* C11 (SpecTopo): on Square and Hexagonal grids, stepping from c to its neighbour in a
\* valid direction d and from there in the opposite direction leads back to c.
C11_NeighbourRoundTrip ==
    (/\ ret.fn = "get_neighbour" /\ grid_cls \in {"SquareGrid", "HexGrid"}
     /\ ret.err = "none") =>
        LET back == get_neighbour(grid_cls, ret.val, C11_Opposite[arg.direction]) IN
        back.err = "none" /\ back.val = arg.coord

\* C11 witness: a diagonal neighbour was taken from an odd row with negative y.
C11_Witness ==
    /\ ret.fn = "get_neighbour" /\ grid_cls = "HexGrid" /\ ret.err = "none"
    /\ arg.coord = <<-2, -1>> /\ arg.direction = NORTH_WEST

\* the valid directions of the Square and Hexagonal grids in enum order
C12_SquareOrder == <<NORTH, EAST, SOUTH, WEST>>

C12_HexOrder == <<NORTH_EAST, EAST, SOUTH_EAST, SOUTH_WEST, WEST, NORTH_WEST>>

\* the position (from 0) of direction d in the list order
C12_Position(order, d) == (CHOOSE i \in 1..Len(order) : order[i] = d) - 1

\* C12 (SpecTopo): on Square and Hexagonal grids rotate(c, d, t), d valid in the
\* topology, is the direction at position (position(d) + t - 1) mod count of the
\* directions in enum order: Square W with t=3 is E, with t=4 is S; Hexagonal E with
\* t=2..6 is SE, SW, W, NW, NE.
C12_Rotate ==
    (ret.fn = "get_direction" /\ grid_cls \in {"SquareGrid", "HexGrid"}) =>
        LET order == IF grid_cls = "SquareGrid" THEN C12_SquareOrder ELSE C12_HexOrder
            d == arg.direction
            t == arg.turn
        IN /\ (\E i \in 1..Len(order) : order[i] = d) =>
                 /\ ret.err = "none"
                 /\ ret.val = order[((C12_Position(order, d) + t - 1) % Len(order)) + 1]
                 /\ t = 1 => ret.val = d
           /\ (grid_cls = "SquareGrid" /\ d = WEST /\ t = 3) => ret.val = EAST
           /\ (grid_cls = "SquareGrid" /\ d = WEST /\ t = 4) => ret.val = SOUTH
           /\ (grid_cls = "HexGrid" /\ d = EAST /\ t \in 2..6) =>
                 ret.val = <<SOUTH_EAST, SOUTH_WEST, WEST, NORTH_WEST, NORTH_EAST>>[t - 1]

\* C12 witness: a hexagonal rotation that wraps around the end of the list.
C12_Witness ==
    /\ ret.fn = "get_direction" /\ grid_cls = "HexGrid"
    /\ arg.direction = EAST /\ arg.turn = 6 /\ ret.val = NORTH_EAST

\* the two triangular direction sets in enum order
C13_OddOrder == <<NORTH, SOUTH_EAST, SOUTH_WEST>>

C13_EvenOrder == <<NORTH_EAST, SOUTH, NORTH_WEST>>

\* C13 (SpecTopo): triangular rotate(c, d, t) is, for d at position i of the odd list
\* [N,SE,SW], the element (i + t - 1) mod 3 of the even list [NE,S,NW], and for d at
\* position i of the even list the element (i + t) mod 3 of the odd list, whatever c.
\* N with t=1,2,3 is NE, S, NW; with t=1 SE is S, SW is NW, NE is SE, S is SW, NW is N.
C13_TriangleRotate ==
    (ret.fn = "get_direction" /\ grid_cls = "TriangleGrid") =>
        LET d == arg.direction
            t == arg.turn
        IN /\ (\E i \in 1..3 : C13_OddOrder[i] = d) =>
                 /\ ret.err = "none"
                 /\ ret.val = C13_EvenOrder[((C12_Position(C13_OddOrder, d) + t - 1) % 3) + 1]
           /\ (\E i \in 1..3 : C13_EvenOrder[i] = d) =>
                 /\ ret.err = "none"
                 /\ ret.val = C13_OddOrder[((C12_Position(C13_EvenOrder, d) + t) % 3) + 1]
           /\ (d = NORTH /\ t \in 1..3) => ret.val = <<NORTH_EAST, SOUTH, NORTH_WEST>>[t]
           /\ (d = SOUTH_EAST /\ t = 1) => ret.val = SOUTH
           /\ (d = SOUTH_WEST /\ t = 1) => ret.val = NORTH_WEST
           /\ (d = NORTH_EAST /\ t = 1) => ret.val = SOUTH_EAST
           /\ (d = SOUTH /\ t = 1) => ret.val = SOUTH_WEST
           /\ (d = NORTH_WEST /\ t = 1) => ret.val = NORTH

\* C13 witness: an odd-set direction was rotated at an odd coordinate.
C13_Witness ==
    /\ ret.fn = "get_direction" /\ grid_cls = "TriangleGrid"
    /\ arg.direction = SOUTH_WEST /\ arg.turn = 3 /\ arg.coord = <<1, -1>>
    /\ ret.val = SOUTH

\* the directions of each topology
C14_Directions ==
    [SquareGrid |-> {NORTH, EAST, SOUTH, WEST},
     HexGrid |-> {NORTH_EAST, EAST, SOUTH_EAST, SOUTH_WEST, WEST, NORTH_WEST},
     TriangleGrid |-> {NORTH, NORTH_EAST, SOUTH_EAST, SOUTH, SOUTH_WEST, NORTH_WEST}]

\* C14 (SpecTopo): in every topology rotate called with a current direction that is
\* not a direction of the topology fails with InvalidDirection, for every coordinate
\* and every turn.
C14_RotateInvalidDirection ==
    (ret.fn = "get_direction" /\ arg.direction \notin C14_Directions[grid_cls]) =>
        ret.err = "InvalidDirection"

\* C15 as stated (SpecTopo): neighbour called with a coordinate invalid for the
\* topology and a direction not valid at it raises InvalidDirection.
C15_DirectionCheckFirst ==
    (/\ ret.fn = "get_neighbour" /\ ~validate_coord(grid_cls, arg.coord)
     /\ arg.direction \notin DOMAIN get_direction_vectors(grid_cls, arg.coord)) =>
        ret.err = "InvalidDirection"

\* C15 amended (SpecTopo): neighbour called with a coordinate invalid for the topology
\* and a direction not valid at it raises InvalidCoord: the coordinate check comes first.
C15_CoordCheckFirst ==
    (/\ ret.fn = "get_neighbour" /\ ~validate_coord(grid_cls, arg.coord)
     /\ arg.direction \notin DOMAIN get_direction_vectors(grid_cls, arg.coord)) =>
        ret.err = "InvalidCoord"

\* C15 witness: neighbour was asked for E at the invalid triangular coordinate (1, 0).
C15_Witness ==
    /\ ret.fn = "get_neighbour" /\ grid_cls = "TriangleGrid"
    /\ arg.coord = <<1, 0>> /\ arg.direction = EAST /\ ret.err = "InvalidCoord"

\* x and y of coord have different parity
C16_MixedParity(coord) == (coord[1] + coord[2]) % 2 = 1

\* C16 (SpecGrid): on a Triangular grid get, set and contains raise InvalidCoord
\* exactly at coordinates of mixed parity and succeed at every other coordinate, a
\* rejected set leaving the map and the bounding box unchanged; on Square and Hexagonal
\* grids they succeed at every coordinate.
C16_InvalidCoordExactly ==
    [][IsSetCall =>
          LET rejected(c) == grid_cls = "TriangleGrid" /\ C16_MixedParity(c) IN
          /\ err' = (IF rejected(last'.coord) THEN "InvalidCoord" ELSE "none")
          /\ rejected(last'.coord) => grid' = grid
          /\ \A c \in Coords :
                /\ Grid_getitem(grid', c).err = (IF rejected(c) THEN "InvalidCoord" ELSE "none")
                /\ Grid_contains(grid', c).err = (IF rejected(c) THEN "InvalidCoord" ELSE "none")]_vars

\* C17 (Spec): get(c) at a valid coordinate returns the colour most recently written
\* to c by set, whether the ant's step or an outside caller made the call, or the
\* default colour if c was never written; written[c] changes only in a set at c, so a
\* set at one coordinate does not change what get returns at any other coordinate.
C17_GetReturnsLastWritten ==
    \A c \in Coords \cup DOMAIN written : validate_coord(grid_cls, c) =>
        Grid_getitem(grid, c) =
            [err |-> "none",
             val |-> IF c \in DOMAIN written THEN written[c] ELSE default_colour]

\* C17 witness: on a grid with a custom default colour two coordinates were written,
\* one of them with a colour other than the default, and get returns that colour.
C17_Witness ==
    /\ default_colour # 0 /\ err = "none"
    /\ Cardinality(DOMAIN written) = 2
    /\ \E c \in DOMAIN written :
          written[c] # default_colour /\ Grid_getitem(grid, c).val = written[c]

\* the rule record of types.py written out
C18_Rule(cell, turn, new_cell) ==
    [ant_colour |-> 0, cell_colour |-> cell, new_ant_colour |-> 0,
     new_cell_colour |-> new_cell, turn |-> turn]

\* C18 (SpecLR): rules_from_lr_string on a string of n tokens returns n rules in token
\* order, the i-th (0-based) being Rule(0, i, 0, (i + 1) mod n, table value of token i);
\* Square "LR" gives (cell 0, turn 4, new cell 1), (cell 1, turn 2, new cell 0) and
\* Square "RRL" gives turns 2, 2, 4 with new cell colours 1, 2, 0.
C18_RulesFromLRString ==
    (ret.fn = "rules_from_lr_string" /\ ret.err = "none") =>
        LET tokens == tokenise_lr_string(grid_cls, arg.lr).val
            n == Len(tokens)
        IN /\ Len(ret.val) = n
           /\ \A i \in 0..(n - 1) :
                 ret.val[i + 1] =
                     C18_Rule(i, dict_get(lr_directions(grid_cls), tokens[i + 1]),
                              (i + 1) % n)
           /\ (grid_cls = "SquareGrid" /\ arg.lr = <<"L", "R">>) =>
                 ret.val = <<C18_Rule(0, 4, 1), C18_Rule(1, 2, 0)>>
           /\ (grid_cls = "SquareGrid" /\ arg.lr = <<"R", "R", "L">>) =>
                 ret.val = <<C18_Rule(0, 2, 1), C18_Rule(1, 2, 2), C18_Rule(2, 4, 0)>>

\* C18 witness: Square "RRL" was compiled into three rules.
C18_Witness ==
    /\ ret.fn = "rules_from_lr_string" /\ ret.err = "none"
    /\ grid_cls = "SquareGrid" /\ arg.lr = <<"R", "R", "L">> /\ Len(ret.val) = 3

\* the concatenation of a sequence of strings
RECURSIVE C19_Concat(_)
C19_Concat(strs) == IF strs = <<>> THEN <<>> ELSE Head(strs) \o C19_Concat(Tail(strs))

\* the token table of each topology as a set of (token, turn) pairs
C19_Table ==
    [SquareGrid |-> Range(SquareGrid_lr_directions),
     HexGrid |-> Range(HexGrid_lr_directions),
     TriangleGrid |-> Range(TriangleGrid_lr_directions)]

\* some token of the table is a prefix of str
C19_SomePrefix(str) == \E e \in C19_Table[grid_cls] : startswith(str, e[1])

\* C19 (SpecLR): tokenisation takes at each position the longest token of the table
\* that is a prefix of the remainder (Hexagonal "R1" is one token with turn 2, "R2" one
\* token with turn 3); the tokens concatenate to the input; it ends after at most one
\* token per character; and if at some position no token is a prefix of the remainder
\* (Square "LX", Hexagonal "R3", Triangular "F") compilation fails with an error and
\* returns no rule list.
C19_GreedyTokenise ==
    /\ ret.fn = "_tokenise_lr_string" =>
          LET tokens == ret.val
              n == Len(tokens)
              consumed(i) == Len(C19_Concat(SubSeq(tokens, 1, i)))
              rest(i) == SubSeq(arg.lr, consumed(i) + 1, Len(arg.lr))
          IN /\ n <= Len(arg.lr)
             /\ \A i \in 1..n :
                   /\ \E e \in C19_Table[grid_cls] : e[1] = tokens[i]
                   /\ startswith(rest(i - 1), tokens[i])
                   /\ \A e \in C19_Table[grid_cls] :
                         startswith(rest(i - 1), e[1]) => Len(e[1]) <= Len(tokens[i])
             /\ ret.err = "none" => C19_Concat(tokens) = arg.lr
             /\ ret.err \in {"none", "ValueError"}
             /\ ret.err = "ValueError" <=> (rest(n) # <<>> /\ ~C19_SomePrefix(rest(n)))
    /\ ret.fn = "rules_from_lr_string" =>
          /\ ret.err = (IF tokenise_lr_string(grid_cls, arg.lr).err = "none"
                        THEN "none" ELSE "ValueError")
          /\ (grid_cls = "HexGrid" /\ arg.lr = <<"R", "1">>) =>
                ret.err = "none" /\ Len(ret.val) = 1 /\ ret.val[1].turn = 2
          /\ (grid_cls = "HexGrid" /\ arg.lr = <<"R", "2">>) =>
                ret.err = "none" /\ Len(ret.val) = 1 /\ ret.val[1].turn = 3
          /\ (grid_cls = "SquareGrid" /\ arg.lr = <<"L", "X">>) => ret.err = "ValueError"
          /\ (grid_cls = "HexGrid" /\ arg.lr = <<"R", "3">>) => ret.err = "ValueError"
          /\ (grid_cls = "TriangleGrid" /\ arg.lr = <<"F">>) => ret.err = "ValueError"

\* C19 witness: Hexagonal "R1L" was tokenised into the two tokens "R1" and "L".
C19_Witness ==
    /\ ret.fn = "_tokenise_lr_string" /\ ret.err = "none"
    /\ grid_cls = "HexGrid" /\ arg.lr = <<"R", "1", "L">>
    /\ ret.val = << <<"R", "1">>, <<"L">> >>

\* the rule list with two rules for the key (0, 0)
C20_Colliding == <<Rule(0, 0, 0, 0, 2), Rule(0, 1, 0, 0, 1), Rule(0, 0, 0, 1, 4)>>

\* C20 (Spec): an Ant constructed from a rule list in which two rules share a key is
\* constructed (with a warning for the key), and a step applies, for the key of the
\* ant's colour and its cell's colour, the rule that comes last in the list with that
\* key; rules with other keys are applied as given.
C20_LaterRuleWins ==
    [][/\ Len(ants') = 1
       /\ Range(Ant_init_warnings(arg.rules)) =
             {RuleKey(arg.rules[k].ant_colour, arg.rules[k].cell_colour) :
                 k \in {k \in 1..Len(arg.rules) :
                           \E j \in 1..(k - 1) :
                              /\ arg.rules[j].ant_colour = arg.rules[k].ant_colour
                              /\ arg.rules[j].cell_colour = arg.rules[k].cell_colour}}
       /\ \A i \in 1..Len(ants) : (IsStepCall(i) /\ err' = "none") =>
             LET position == ants[i].position
                 cell == Grid_getitem(grid, position).val
                 keyed == {k \in 1..Len(arg.rules) :
                              /\ arg.rules[k].ant_colour = ants[i].colour
                              /\ arg.rules[k].cell_colour = cell}
                 rule == arg.rules[CHOOSE k \in keyed : \A j \in keyed : j <= k]
             IN /\ keyed # {}
                /\ Grid_getitem(grid', position).val = rule.new_cell_colour
                /\ ants'[i].colour = rule.new_ant_colour
                /\ ants'[i].direction =
                      get_direction(grid_cls, position, ants[i].direction, rule.turn).val]_vars

\* C20 witness: an ant built from the colliding list stepped on a cell of colour 0 of a
\* Square grid and painted it with colour 1, the new colour of the later rule.
C20_Witness ==
    /\ arg.rules = C20_Colliding /\ Ant_init_warnings(arg.rules) # <<>>
    /\ grid_cls = "SquareGrid" /\ default_colour = 0
    /\ nsteps = 1 /\ err = "none" /\ last.op = "step"
    /\ Grid_getitem(grid, ants[1].prev_position).val = 1

\* the scenario of C21: a Square grid with default colour 0, one ant constructed at
\* (0,0) facing North with the rules of "LR", two successful steps and no other call
C21_Scenario ==
    /\ grid_cls = "SquareGrid" /\ default_colour = 0
    /\ arg.rules = rules_from_lr_string("SquareGrid", <<"L", "R">>).val
    /\ arg.position = <<0, 0>> /\ arg.direction = NORTH
    /\ nsteps = 2 /\ nsets = 0 /\ err = "none"

\* C21 as stated (Spec): in the scenario, after exactly 2 steps cell (0,0) has colour 1,
\* the second cell visited was repainted by the second rule (new colour 0, turn 2) and
\* the ant, having turned left then right, faces North again.
C21_TwoStepsLeftThenRight ==
    C21_Scenario =>
        /\ Grid_getitem(grid, <<0, 0>>).val = 1
        /\ Grid_getitem(grid, ants[1].prev_position).val = 0
        /\ ants[1].direction = NORTH

\* C21 (Spec), amended: in the scenario, after exactly 2 steps cell (0,0) has colour 1;
\* the second cell visited, (-1,0), had the default colour 0, so it was repainted by
\* the first rule again (new colour 1, turn 4, Left); the ant turned left twice, faces
\* South and stands on (-1,1).
C21_TwoStepsLeftTwice ==
    C21_Scenario =>
        /\ Grid_getitem(grid, <<0, 0>>).val = 1
        /\ ants[1].prev_position = <<-1, 0>>
        /\ Grid_getitem(grid, <<-1, 0>>).val = 1
        /\ ants[1].direction = SOUTH
        /\ ants[1].position = <<-1, 1>>
        /\ ants[1].colour = 0

\* C21 witness: the scenario was run to its second step on a grid that does not store
\* the default colour.
C21_Witness == C21_Scenario /\ ~store_default /\ last.op = "step"

\* C22 (Spec): every coordinate stored in the sparse map is valid for the topology, an
\* ant constructed on a valid position stands on a valid position after any number of
\* steps, and every neighbour of the ant's position in a direction valid there is a
\* valid coordinate.
C22_CoordsValid ==
    /\ \A c \in DOMAIN grid.cells : validate_coord(grid_cls, c)
    /\ \A i \in 1..Len(ants) : validate_coord(grid_cls, arg.position) =>
          /\ validate_coord(grid_cls, ants[i].position)
          /\ validate_coord(grid_cls, ants[i].prev_position)
          /\ \A d \in DOMAIN get_direction_vectors(grid_cls, ants[i].position) :
                LET n == get_neighbour(grid_cls, ants[i].position, d) IN
                n.err = "none" /\ validate_coord(grid_cls, n.val)

\* C22 witness: an ant on a Triangular grid has made two successful steps and a cell
\* is stored.
C22_Witness ==
    /\ grid_cls = "TriangleGrid" /\ nsteps = 2 /\ err = "none" /\ last.op = "step"
    /\ ants[1].position # arg.position /\ ants[1].prev_position # arg.position
    /\ DOMAIN grid.cells # {}

\* the direction set of the parity opposite to coord's parity
C30_OppositeDirs(coord) ==
    IF coord[1] % 2 = 0 THEN {NORTH, SOUTH_WEST, SOUTH_EAST}
                        ELSE {NORTH_EAST, NORTH_WEST, SOUTH}

\* C30 (Spec): for an ant on a Triangular grid constructed on a valid position with a
\* direction of the set of the parity opposite to the position's, after any number of
\* steps the direction belongs to the set of the parity opposite to the current
\* position's, a successful step changes the parity of the position, and no step
\* fails with InvalidDirection or InvalidCoord.
C30_TriangleParityAlternates ==
    [][(/\ grid_cls = "TriangleGrid" /\ validate_coord(grid_cls, arg.position)
        /\ arg.direction \in C30_OppositeDirs(arg.position)) =>
          \A i \in 1..Len(ants) :
             /\ ants[i].direction \in C30_OppositeDirs(ants[i].position)
             /\ ants'[i].direction \in C30_OppositeDirs(ants'[i].position)
             /\ IsStepCall(i) =>
                   /\ err' \notin {"InvalidDirection", "InvalidCoord"}
                   /\ err' = "none" =>
                         ants'[i].position[1] % 2 # ants[i].position[1] % 2]_vars

\* C30 witness: an ant started as the driver starts it, on (0,0) facing North, made
\* three successful steps on a Triangular grid and stands on an odd cell.
C30_Witness ==
    /\ grid_cls = "TriangleGrid" /\ arg.position = <<0, 0>> /\ arg.direction = NORTH
    /\ nsteps = 3 /\ nsets = 0 /\ err = "none" /\ ants[1].position[1] % 2 = 1

\* the angles of C26, by topology and direction
C26_Angles ==
    [SquareGrid |-> (NORTH :> 0) @@ (EAST :> 90) @@ (SOUTH :> 180) @@ (WEST :> 270),
     HexGrid |-> (NORTH_EAST :> 30) @@ (EAST :> 90) @@ (SOUTH_EAST :> 150)
                 @@ (SOUTH_WEST :> 210) @@ (WEST :> 270) @@ (NORTH_WEST :> 330),
     TriangleGrid |-> (NORTH :> 0) @@ (NORTH_EAST :> 60) @@ (SOUTH_EAST :> 120)
                      @@ (SOUTH :> 180) @@ (SOUTH_WEST :> 240) @@ (NORTH_WEST :> 300)]

\* the directions of a topology: those of its direction vectors at an even and at an
\* odd cell
C26_Directions(cls) ==
    DOMAIN get_direction_vectors(cls, <<0, 0>>) \cup DOMAIN get_direction_vectors(cls, <<1, 1>>)

\* C26 (SpecTopo): get_ant_angle returns an integer in 0..359 for every direction of
\* the topology (the listed values), strictly increasing along the enum order of those
\* directions, and fails with the unsupported-direction error for every other direction.
C26_AntAngle ==
    ret.fn = "get_ant_angle" =>
        /\ DOMAIN C26_Angles[grid_cls] = C26_Directions(grid_cls)
        /\ IF arg.direction \in C26_Directions(grid_cls)
           THEN /\ ret.err = "none" /\ ret.val \in 0..359
                /\ ret.val = C26_Angles[grid_cls][arg.direction]
                /\ \A d \in C26_Directions(grid_cls) :
                      d < arg.direction => get_ant_angle(grid_cls, d).val < ret.val
           ELSE ret.err = "ValueError"

\* C26 witness: the angle of WEST, the fifth of the six Hexagonal directions, is 270.
C26_Witness ==
    /\ ret.fn = "get_ant_angle" /\ grid_cls = "HexGrid" /\ arg.direction = WEST
    /\ ret.err = "none" /\ ret.val = 270

\* C28 (SpecAdd): coord + vector and vector + coord both are the coordinate of the
\* componentwise sums, vector + vector is the vector of the componentwise sums and is
\* commutative, and coord + coord is rejected with TypeError.
C28_Addition ==
    ret.fn = "add" =>
        LET a == arg.a
            b == arg.b
            sum(cls) == [cls |-> cls, x |-> a.x + b.x, y |-> a.y + b.y]
        IN CASE a.cls = "GridCoord" /\ b.cls = "GridCoord" -> ret.err = "TypeError"
             [] a.cls = "Vector" /\ b.cls = "Vector" ->
                   /\ ret.err = "none" /\ ret.val = sum("Vector")
                   /\ binary_add(b, a) = [err |-> "none", val |-> ret.val]
             [] OTHER ->
                   /\ ret.err = "none" /\ ret.val = sum("GridCoord")
                   /\ binary_add(b, a) = [err |-> "none", val |-> ret.val]

\* C28 witness: Vector(1, -2) + GridCoord(-1, 2) returned GridCoord(0, 0).
C28_Witness ==
    /\ ret.fn = "add" /\ ret.err = "none"
    /\ arg.a = [cls |-> "Vector", x |-> 1, y |-> -2]
    /\ arg.b = [cls |-> "GridCoord", x |-> -1, y |-> 2]
    /\ ret.val = [cls |-> "GridCoord", x |-> 0, y |-> 0]

\* what C27 says of the display bounding box of a grid g
C27_Box(g) ==
    LET stored == DOMAIN g.cells IN
    /\ stored = {} => get_display_bbox(g) = <<0, 0, 0, 0>>
    /\ (grid_cls = "SquareGrid" /\ stored # {}) =>
          LET box == get_display_bbox(g) IN
          /\ \A c \in stored :
                box[1] <= c[1] /\ box[2] <= c[2] /\ c[1] + 1 <= box[3] /\ c[2] + 1 <= box[4]
          /\ \E c \in stored : box[1] = c[1]
          /\ \E c \in stored : box[2] = c[2]
          /\ \E c \in stored : box[3] = c[1] + 1
          /\ \E c \in stored : box[4] = c[2] + 1

\* C27 (Spec): get_display_bbox returns the zero box (0,0,0,0) when no cell is stored,
\* and for a Square grid with at least one stored cell (min x, min y, max x + 1,
\* max y + 1) over the stored coordinates, before and after every call.
C27_DisplayBbox == [][C27_Box(grid) /\ C27_Box(grid')]_vars

\* C27 witness: a Square grid stores the cells (0,0) and (-1,0) and its display
\* bounding box is (-1, 0, 1, 1).
C27_Witness ==
    /\ grid_cls = "SquareGrid" /\ DOMAIN grid.cells = {<<0, 0>>, <<-1, 0>>}
    /\ get_display_bbox(grid) = <<-1, 0, 1, 1>>

\* the number of step calls of ant a in the driver's trace
C23_Steps(a) == Cardinality({j \in 1..Len(run.trace) : run.trace[j][2] = a})

\* C23 (SpecRun): in every tick the driver calls step on every ant of its list once, in
\* list order, the same in every tick: the j-th step call of a run over n ants is made
\* in tick (j - 1) div n on ant ((j - 1) mod n) + 1, so no ant takes its (k+1)-th step
\* before every ant has taken its k-th; each call is one whole step of one ant.
C23_TickOrder ==
    LET n == Len(ants) IN
    /\ \A j \in 1..Len(run.trace) : run.trace[j] = <<(j - 1) \div n, ((j - 1) % n) + 1>>
    /\ \A a, b \in 1..n :
          a < b => (C23_Steps(b) <= C23_Steps(a) /\ C23_Steps(a) <= C23_Steps(b) + 1)
    /\ run.pc \in {"loop", "done"} => Len(run.trace) = run.i * n + run.k

\* C23 witness: in its third tick the driver has stepped the first of two ants.
C23_Witness ==
    /\ Len(ants) = 2 /\ run.pc = "loop" /\ run.i = 2 /\ run.k = 1
    /\ Len(run.trace) = 5 /\ run.trace[5] = <<2, 1>>

\* every ant refers to the Grid instance the first ant refers to
C24_SameGrid == \A a \in 1..Len(ants) : run.grids[a] = run.grids[1]

\* C24 (SpecRun): validate_ants on a non-empty list returns the common grid if every
\* ant refers to the instance the first ant refers to and fails with ValueError if
\* some ant refers to another instance, even one with the same contents; no ant is
\* stepped before it; constructing an ant succeeds on any grid whatever the grids
\* of the ants made before.
C24_ValidateAnts ==
    [][/\ (run.pc = "setup" /\ run'.pc # "setup" /\ ants # <<>>) =>
             /\ grid = Grid_init /\ nsteps = 0
             /\ IF C24_SameGrid
                THEN /\ run'.validated = [err |-> "none", val |-> run.grids[1]]
                     /\ run'.pc = "loop" /\ err' = "none"
                ELSE /\ run'.validated.err = "ValueError"
                     /\ run'.pc = "failed" /\ err' = "ValueError"
       /\ nsteps' # nsteps =>
             run.pc = "loop" /\ run.validated.err = "none" /\ C24_SameGrid
       /\ last'.op = "make_ant" =>
             IF rules_from_lr_string(grid_cls, arg'.lr).err = "none"
             THEN /\ Len(ants') = Len(ants) + 1 /\ err' = "none"
                  /\ run'.grids = Append(run.grids, arg'.grid)
             ELSE ants' = ants /\ err' = "ValueError"]_vars

\* C24 witness: two ants were made on two grids, each registered on its own, and the
\* driver failed in validate_ants without a step.
C24_Witness ==
    /\ run.pc = "failed" /\ err = "ValueError" /\ nsteps = 0
    /\ run.grids = <<1, 2>> /\ run.registry[1] = <<1>> /\ run.registry[2] = <<2>>

\* seq is the beginning of longer
C25_Prefix(seq, longer) ==
    Len(seq) <= Len(longer) /\ SubSeq(longer, 1, Len(seq)) = seq

\* C25 (SpecAnts): constructing an Ant registers it once on the grid it is bound to,
\* after the ants registered there before, and sets its previous position to its
\* initial position; ants() returns the registered ants in construction order;
\* changing the returned list does not change the registry; no call, step included,
\* removes or reorders registered ants.
C25_Registry ==
    [][/\ Len(ants') = Len(ants) + 1 =>
             LET new == Len(ants') IN
             /\ run'.registry[arg'.grid] = Append(run.registry[arg'.grid], new)
             /\ \A g \in GridIds \ {arg'.grid} : run'.registry[g] = run.registry[g]
             /\ ants'[new].prev_position = ants'[new].position
             /\ ants'[new].position = <<0, 0>>
       /\ \A g \in GridIds : C25_Prefix(run.registry[g], run'.registry[g])
       /\ \A a \in 1..Len(ants') :
             {g \in GridIds : a \in Range(run'.registry[g])} = {run'.grids[a]}
       /\ \A g \in GridIds : \A j, k \in 1..Len(run'.registry[g]) :
             j < k => run'.registry[g][j] < run'.registry[g][k]
       /\ (ret' # ret /\ ret'.fn = "ants") => ret'.val = run.registry[ret'.grid]
       /\ (ret.fn = "ants" /\ ret'.fn = "ants_changed") =>
             /\ run'.registry = run.registry
             /\ ret'.val # run'.registry[ret'.grid]]_vars

\* C25 witness: two ants are registered on one grid and have stepped, and the list
\* ants() returned was changed while the registry still holds both.
C25_Witness ==
    /\ ret.fn = "ants_changed" /\ ret.val = <<2>> /\ run.registry[ret.grid] = <<1, 2>>
    /\ nsteps >= 2 /\ err = "none"

C31_Rotation(cls, turn) ==
    CASE cls = "SquareGrid" -> 90 * (turn - 1)
      [] cls = "HexGrid" -> 60 * (turn - 1)
      [] cls = "TriangleGrid" -> (60 :> 60 @@ 120 :> 180 @@ 180 :> 300)[60 * turn]

\* C31 (SpecTopo): whenever get_direction returns, the angle of the new direction is
\* the angle of the old direction plus a rotation that depends on the turn only:
\* 90*(turn-1) on Square, 60*(turn-1) on Hexagonal, and 60, 180, 300 for the turns
\* 1, 2, 3 on Triangular, for directions of the even set and of the odd set alike.
C31_TurnRotatesAngle ==
    (/\ ret.fn = "get_direction" /\ ret.err = "none"
     /\ (grid_cls = "TriangleGrid" => arg.turn \in 1..3)) =>
        LET old_angle == get_ant_angle(grid_cls, arg.direction)
            new_angle == get_ant_angle(grid_cls, ret.val)
        IN /\ old_angle.err = "none" /\ new_angle.err = "none"
           /\ new_angle.val = (old_angle.val + C31_Rotation(grid_cls, arg.turn)) % 360

\* C31 witness: on a Triangular grid SOUTH_WEST, of the odd set, turned by 2 gives
\* NORTH_EAST: 240 + 180 = 60 modulo 360.
C31_Witness ==
    /\ ret.fn = "get_direction" /\ ret.err = "none" /\ grid_cls = "TriangleGrid"
    /\ arg.direction = SOUTH_WEST /\ arg.turn = 2 /\ ret.val = NORTH_EAST
    /\ get_ant_angle(grid_cls, ret.val).val = 60

\* the pairs of C38: NW/SE, NE/SW and S/N
C38_Paired ==
    (NORTH_WEST :> SOUTH_EAST) @@ (SOUTH_EAST :> NORTH_WEST) @@
    (NORTH_EAST :> SOUTH_WEST) @@ (SOUTH_WEST :> NORTH_EAST) @@
    (SOUTH :> NORTH) @@ (NORTH :> SOUTH)

\* the directions in which get_neighbour succeeds at a coordinate
C38_ValidDirections(coord) ==
    {d \in CardinalDirection : get_neighbour("TriangleGrid", coord, d).err = "none"}

\* C38 (SpecTopo): on a Triangular grid a valid coordinate has three neighbours; the
\* neighbour returned for a valid direction is a valid coordinate of the opposite
\* parity, differs from the neighbours in the other valid directions, and its
\* neighbour in the paired direction (NW/SE, NE/SW, S/N) is the coordinate itself.
C38_TriangleNeighbourSymmetric ==
    (/\ ret.fn = "get_neighbour" /\ grid_cls = "TriangleGrid"
     /\ validate_coord(grid_cls, arg.coord)) =>
        /\ Cardinality(C38_ValidDirections(arg.coord)) = 3
        /\ ret.err = "none" <=> arg.direction \in C38_ValidDirections(arg.coord)
        /\ ret.err = "none" =>
              /\ validate_coord(grid_cls, ret.val)
              /\ is_even(ret.val) # is_even(arg.coord)
              /\ \A d \in C38_ValidDirections(arg.coord) \ {arg.direction} :
                    get_neighbour(grid_cls, arg.coord, d).val # ret.val
              /\ LET back == get_neighbour(grid_cls, ret.val, C38_Paired[arg.direction])
                 IN back.err = "none" /\ back.val = arg.coord

\* C38 witness: the SOUTH_WEST neighbour of the odd cell (-1, 1) is (-2, 0), whose
\* NORTH_EAST neighbour is (-1, 1) again.
C38_Witness ==
    /\ ret.fn = "get_neighbour" /\ grid_cls = "TriangleGrid" /\ ret.err = "none"
    /\ arg.coord = <<-1, 1>> /\ arg.direction = SOUTH_WEST /\ ret.val = <<-2, 0>>
    /\ get_neighbour(grid_cls, ret.val, NORTH_EAST).val = <<-1, 1>>

\* the token count of the LR string an ant's rules were compiled from: one rule per token
C32_TokenCount(a) == Cardinality(DOMAIN ants[a].rules)

\* all ants made so far have rules of the same token count
C32_SameTokenCount == \A a, b \in 1..Len(ants) : C32_TokenCount(a) = C32_TokenCount(b)

\* C32 (SpecRun): with the ants the driver makes from LR strings of one token count n on
\* its grid (default colour 0, defaults stored), at every point of the run every stored
\* cell colour and every colour read from the grid is in 0..n-1, every ant has colour 0
\* and no step has failed for want of a rule.
C32_ColoursInCycle ==
    (ants # <<>> /\ C32_SameTokenCount) =>
        LET n == C32_TokenCount(1) IN
        /\ n >= 1
        /\ \A coord \in DOMAIN grid.cells : grid.cells[coord] \in 0..(n - 1)
        /\ \A a \in 1..Len(ants) :
              /\ ants[a].colour = 0
              /\ Grid_getitem(grid, ants[a].position).val \in 0..(n - 1)
        /\ err # "KeyError"
        /\ run.pc = "failed" => run.validated.err # "none"

\* C32 witness: two ants with three-token rules have stepped from the same start cell, which
\* now has the last colour of the cycle.
C32_Witness ==
    /\ Len(ants) = 2 /\ C32_SameTokenCount /\ C32_TokenCount(1) = 3
    /\ nsteps >= 2 /\ err = "none"
    /\ <<0, 0>> \in DOMAIN grid.cells /\ grid.cells[<<0, 0>>] = 2

\* the number of steps made from a coordinate so far, by any ant
C33_StepsFrom(coord) ==
    Cardinality({j \in 1..Len(run.stepped_from) : run.stepped_from[j] = coord})

\* C33 (SpecRun): with one ant or several ants of LR rules of one token count n on the
\* driver's grid (default colour 0), at every point of the run the colour of every cell
\* (every valid coordinate, stored or not) is the number of steps made from that cell
\* modulo n.
C33_ColourCountsVisits ==
    (ants # <<>> /\ C32_SameTokenCount) =>
        /\ \A coord \in DOMAIN grid.cells \cup Range(run.stepped_from) :
              validate_coord(grid_cls, coord)
        /\ \A coord \in Coords \cup DOMAIN grid.cells \cup Range(run.stepped_from) :
              validate_coord(grid_cls, coord) =>
                 LET colour == Grid_getitem(grid, coord) IN
                 /\ colour.err = "none"
                 /\ colour.val = C33_StepsFrom(coord) % C32_TokenCount(1)

\* C33 witness: two ants of two-token rules have both stepped from the start cell in the
\* first tick, which has colour 0 again, and one of them from a second cell, which has
\* colour 1.
C33_Witness ==
    /\ Len(ants) = 2 /\ C32_SameTokenCount /\ C32_TokenCount(1) = 2
    /\ C33_StepsFrom(<<0, 0>>) = 2 /\ Grid_getitem(grid, <<0, 0>>).val = 0
    /\ \E coord \in DOMAIN grid.cells :
          C33_StepsFrom(coord) = 1 /\ grid.cells[coord] = 1

\* an earlier step of the running tick was made from coord
C34_SteppedFromThisTick(coord) ==
    \E j \in 1..Len(run.stepped_from) :
       run.trace[j][1] = run.i /\ run.stepped_from[j] = coord

\* C34 (SpecRun): when an ant steps from a cell another ant has stepped from earlier in
\* the same tick, the step is the one of the rule for the colour that earlier step
\* wrote (the colour of the latest set call on the cell): it fails with KeyError if the
\* ant has no such rule, and otherwise writes that rule's new cell colour to the cell
\* and gives the ant that rule's colour and turn.
C34_SecondAntReadsFirstAntsWrite ==
    [][\A a \in 1..Len(ants) :
          (/\ run.pc = "loop" /\ IsStepCall(a)
           /\ C34_SteppedFromThisTick(ants[a].position)) =>
              LET p == ants[a].position
                  rule_key == RuleKey(ants[a].colour, written[p])
              IN IF rule_key \notin DOMAIN ants[a].rules
                 THEN err' = "KeyError" /\ grid' = grid /\ ants' = ants
                 ELSE LET rule == ants[a].rules[rule_key] IN
                      /\ err' = "none"
                      /\ grid'.cells[p] = rule.new_cell_colour
                      /\ ants'[a].colour = rule.new_ant_colour
                      /\ ants'[a].direction =
                            get_direction(grid_cls, p, ants[a].direction, rule.turn).val
    ]_vars

\* C34 witness: two ants with the rules of "LR" started a tick on the cell (0,0) of
\* colour 0; the first wrote 1 and turned left, the second read that 1, wrote 0 and
\* turned right.
C34_Witness ==
    /\ Len(ants) = 2 /\ ants[1].rules = ants[2].rules
    /\ ants[1].rules = Ant_rules(rules_from_lr_string(grid_cls, <<"L", "R">>).val)
    /\ run.trace = << <<0, 1>>, <<0, 2>> >>
    /\ run.stepped_from = << <<0, 0>>, <<0, 0>> >>
    /\ Grid_getitem(grid, <<0, 0>>).val = 0 /\ <<0, 0>> \in DOMAIN grid.cells
    /\ ants[1].direction # ants[2].direction

\* the fast bounding box of g2 is that of g1 grown, if at all, to include coord
C35_GrownToInclude(g1, g2, coord) ==
    /\ g2.has_data /\ InBbox(g2, coord)
    /\ IF g1.has_data
       THEN /\ g2.min_x \in {g1.min_x, coord[1]} /\ g2.min_x <= g1.min_x
            /\ g2.max_x \in {g1.max_x, coord[1]} /\ g2.max_x >= g1.max_x
            /\ g2.min_y \in {g1.min_y, coord[2]} /\ g2.min_y <= g1.min_y
            /\ g2.max_y \in {g1.max_y, coord[2]} /\ g2.max_y >= g1.max_y
       ELSE bbox(g2) = <<coord[1], coord[2], coord[1], coord[2]>>

C36_IsRead == ret' # ret /\ ret'.fn \in ReadOps \cup {"ants"}

\* C36 (SpecRead): a call of get, contains, iterate, bbox or ants leaves the stored
\* cells, the fast bounding box and its has-data flag, the ants and the registries as
\* they were; get and contains on a coordinate that is not stored store nothing for it
\* and leave a grid without data without data.
C36_ReadsChangeNothing ==
    [][C36_IsRead =>
          /\ grid' = grid /\ ants' = ants /\ run' = run
          /\ written' = written /\ passed' = passed
          /\ (ret'.fn \in {"getitem", "contains"} /\ ret'.coord \notin DOMAIN grid.cells) =>
                /\ ret'.coord \notin DOMAIN grid'.cells
                /\ grid'.has_data = grid.has_data /\ bbox(grid') = bbox(grid)
                /\ run'.registry = run.registry
    ]_vars

\* C36 witness: after steps of a registered ant, get was called on the never-written
\* coordinate (1,1) outside the fast bounding box and returned the default colour;
\* the coordinate is not stored and still outside the box.
C36_Witness ==
    /\ ret.fn = "getitem" /\ ret.coord = <<1, 1>> /\ ret.err = "none"
    /\ ret.getitem = default_colour
    /\ <<1, 1>> \notin passed /\ <<1, 1>> \notin DOMAIN grid.cells
    /\ grid.has_data /\ ~InBbox(grid, <<1, 1>>)
    /\ nsteps >= 2 /\ run.registry[1] # <<>>

\* coord lies inside the fast bounding box of g enlarged by 1 on each side
C37_InEnlargedBbox(g, coord) ==
    /\ g.min_x - 1 <= coord[1] /\ coord[1] <= g.max_x + 1
    /\ g.min_y - 1 <= coord[2] /\ coord[2] <= g.max_y + 1

\* C37 (SpecRun): while no step of the run has failed, every stored coordinate lies in
\* the fast bounding box, and for every ant that has stepped the previous position
\* lies in the box and the position in the box enlarged by 1 on each side.
C37_BboxCoversAnts ==
    run.pc \in {"loop", "done"} =>
        /\ \A coord \in DOMAIN grid.cells : grid.has_data /\ InBbox(grid, coord)
        /\ \A a \in 1..Len(ants) :
              C23_Steps(a) >= 1 =>
                 /\ grid.has_data
                 /\ InBbox(grid, ants[a].prev_position)
                 /\ C37_InEnlargedBbox(grid, ants[a].position)

\* C37 witness: an ant that has stepped three times stands outside the fast bounding
\* box, next to its previous position on the edge of the box.
C37_Witness ==
    /\ run.pc \in {"loop", "done"} /\ err = "none"
    /\ \E a \in 1..Len(ants) :
          /\ C23_Steps(a) = 3
          /\ ~InBbox(grid, ants[a].position)
          /\ C37_InEnlargedBbox(grid, ants[a].position)
          /\ InBbox(grid, ants[a].prev_position)

====
